---- MODULE Spec2Model ----
(***************************************************************************)
(* Verification model of the n.Gabi chat-gateway backend                   *)
(* (resper1965/ngabi): the request rate limiter of                         *)
(* app/middleware/rate_limit_middleware.py, the identity resolution of     *)
(* app/core/rate_limiting.py and the Redis response cache of               *)
(* app/core/cache.py.                                                      *)
(*                                                                         *)
(* Python strings are modelled as sequences of one-character strings, so   *)
(* that prefix tests, concatenation, lower() and strip() are computed the  *)
(* way the code computes them.  An optional value (dict.get(...), an       *)
(* Optional[int] argument) is a record [present, val].                     *)
(***************************************************************************)
EXTENDS Integers, Sequences, FiniteSets, Bags, TLC

VARIABLES
    now,             \* time.time(), in ticks of 1/TicksPerSecond second
    nticks,          \* number of clock advances so far (bounds the model)
    nreq,            \* number of requests dispatched so far (bounds the model)
    request_counts,  \* RateLimitMiddleware.request_counts: key -> list of timestamps
    pending,         \* admitted requests suspended in `await call_next(request)`
    last,            \* the verdict of the most recent admission check
    admitted,        \* history: the admissions made, (tenant_id, path, key, time)
    events_table,    \* rows of the durable "events" table
    fn_req,          \* the request handed to the key-derivation functions
    fn_out,          \* the value the last key-derivation call returned
    default_ttl,     \* CacheConfig.default_ttl (settings.cache_ttl, env CACHE_TTL)
    cache_enabled,   \* CacheConfig.cache_enabled (settings.cache_enabled)
    redis_client,    \* RedisCache.redis_client is not None (the connection succeeded)
    redis_up,        \* whether the Redis server answers commands
    redis_store,     \* Redis keyspace: key -> [data, expires_at]
    cache_now,       \* the clock of the cache and of Redis, in seconds
    ncache,          \* number of cache calls so far (bounds the model)
    ncticks,         \* number of advances of the cache clock (bounds the model)
    cache_ret,       \* the last cache call: its arguments and the value returned
    unreadable,      \* Redis keys whose stored bytes pickle.loads rejects
    last_put,        \* history: key -> the entry of the latest successful put
    listeners,       \* EventSystem.listeners: event type -> list of listeners
    emits,           \* the calls of EventSystem.emit made so far, each with its position
    tasks,           \* the listener tasks created by process_listeners
    webhook_tasks,   \* the detached tasks running process_event_webhooks
    ev_log,          \* history: the order of persistence, dispatch and invocation
    sweeps,          \* the calls of reprocess_failed_events made so far
    subscriptions,   \* rows of the durable "webhooks" table
    dispatches,      \* the calls of process_event_webhooks, with their deliveries
    wrap_ret,        \* the last call through the cache_response wrapper
    chat_turns,      \* the requests handled by send_chat_message
    api_ret          \* the last history query or registry call: arguments and result

rlVars    == <<now, nticks, nreq, request_counts, pending, last, admitted, events_table>>
fnVars    == <<fn_req, fn_out>>
cacheVars == <<default_ttl, cache_enabled, redis_client, redis_up, redis_store,
               cache_now, ncache, ncticks, cache_ret, unreadable, last_put>>
evVars    == <<listeners, emits, tasks, webhook_tasks, ev_log>>
appVars   == <<sweeps, subscriptions, dispatches, wrap_ret, chat_turns, api_ret>>
vars      == rlVars \o fnVars \o cacheVars \o evVars \o appVars

(***************************************************************************)
(* Bounds of the model.                                                    *)
(***************************************************************************)
TicksPerSecond == 2     \* clock resolution: time.time() is a float
MaxTicks == 2           \* clock advances per behaviour
MaxRequests == 6        \* requests dispatched per behaviour, concurrent service
MaxInFlight == 2        \* requests suspended in call_next at one time
MaxSerialRequests == 7  \* requests dispatched per behaviour, one at a time
MaxCacheCalls == 2      \* cache calls per behaviour
MaxCacheTicks == 1      \* advances of the cache clock per behaviour
MaxFaultCalls == 2      \* cache calls per behaviour, with storage faults
MaxEmits == 2           \* calls of emit per behaviour, nested error emits included
MaxSweeps == 1          \* calls of reprocess_failed_events per behaviour
MaxDispatches == 1      \* calls of process_event_webhooks per behaviour

(***************************************************************************)
(* Strings.                                                                *)
(***************************************************************************)
None == [present |-> FALSE, val |-> <<>>]

Some(s) == [present |-> TRUE, val |-> s]

\* Python truthiness of an Optional[str]: None and "" are both falsy.
Truthy(x) == x.present /\ x.val # <<>>

\* str.startswith
StartsWith(s, p) == Len(p) <= Len(s) /\ SubSeq(s, 1, Len(p)) = p

\* the `in` operator on strings: w occurs in s
Contains(s, w) == \E i \in 1..(Len(s) - Len(w) + 1) : SubSeq(s, i, i + Len(w) - 1) = w

Min(S) == CHOOSE x \in S : \A y \in S : x <= y

Max(S) == CHOOSE x \in S : \A y \in S : x >= y

Range(f) == {f[i] : i \in DOMAIN f}

(***************************************************************************)
(* String constants of the rate limiter.                                   *)
(***************************************************************************)
S_chat == <<"/", "c", "h", "a", "t", "/">>

S_chat_stream == <<"/", "c", "h", "a", "t", "/", "s", "t", "r", "e", "a", "m">>

S_chat_batch == <<"/", "c", "h", "a", "t", "/", "b", "a", "t", "c", "h">>

S_auth_login == <<"/", "a", "u", "t", "h", "/", "l", "o", "g", "i", "n">>

S_upload == <<"/", "u", "p", "l", "o", "a", "d", "/">>

S_1_minute == <<"1", " ", "m", "i", "n", "u", "t", "e">>

S_second == <<"s", "e", "c", "o", "n", "d">>

S_minute == <<"m", "i", "n", "u", "t", "e">>

S_hour == <<"h", "o", "u", "r">>

S_day == <<"d", "a", "y">>

S_tenant_prefix == <<"t", "e", "n", "a", "n", "t", ":">>

S_user_prefix == <<"u", "s", "e", "r", ":">>

(***************************************************************************)
(* app/core/rate_limiting.py: identity resolution.                         *)
(* A request is a record                                                   *)
(*   [hdr_tenant, qry_tenant, path_tenant, hdr_user, qry_user : Optional,  *)
(*    client_host : str, path : str].                                      *)
(***************************************************************************)
\* slowapi.util.get_remote_address: the caller's network address
get_remote_address(request) == request.client_host

\* variant of get_tenant_id_from_request that tries the path parameter before
\* the query parameter
get_tenant_id_path_first(request) ==
    IF Truthy(request.hdr_tenant) THEN request.hdr_tenant.val
    ELSE IF Truthy(request.path_tenant) THEN request.path_tenant.val
    ELSE IF Truthy(request.qry_tenant) THEN request.qry_tenant.val
    ELSE get_remote_address(request)

get_tenant_id_from_request(request) ==
    IF Truthy(request.hdr_tenant) THEN request.hdr_tenant.val
    ELSE IF Truthy(request.qry_tenant) THEN request.qry_tenant.val
    ELSE IF Truthy(request.path_tenant) THEN request.path_tenant.val
    ELSE get_remote_address(request)

get_tenant_key(request) ==
    LET tenant_id == get_tenant_id_from_request(request)
        tid == IF tenant_id = <<>> THEN get_remote_address(request) ELSE tenant_id
    IN  S_tenant_prefix \o tid

get_user_key(request) ==
    LET tenant_id == get_tenant_id_from_request(request)
        \* headers.get("X-User-ID") or query_params.get("user_id")
        user_id == IF Truthy(request.hdr_user) THEN request.hdr_user ELSE request.qry_user
        tid == IF tenant_id = <<>> THEN get_remote_address(request) ELSE tenant_id
        uid == IF Truthy(user_id) THEN user_id.val ELSE get_remote_address(request)
    IN  S_user_prefix \o tid \o <<":">> \o uid

\* settings.rate_limit_enabled; main.py installs the middleware only when it is set
RATE_LIMIT_ENABLED == TRUE

is_rate_limiting_enabled == RATE_LIMIT_ENABLED

(***************************************************************************)
(* app/middleware/rate_limit_middleware.py: endpoint classification.       *)
(***************************************************************************)
\* the dict literal of _get_endpoint_config, in insertion (= iteration) order
endpoint_configs ==
    << [endpoint |-> S_chat,        requests |-> 10, window |-> S_1_minute],
       [endpoint |-> S_chat_stream, requests |-> 5,  window |-> S_1_minute],
       [endpoint |-> S_chat_batch,  requests |-> 2,  window |-> S_1_minute],
       [endpoint |-> S_auth_login,  requests |-> 5,  window |-> S_1_minute],
       [endpoint |-> S_upload,      requests |-> 5,  window |-> S_1_minute] >>

default_endpoint_config == [requests |-> 100, window |-> S_1_minute]

\* the for loop returns at the first entry, in iteration order, the path starts with
_get_endpoint_config(path) ==
    LET hits == {i \in DOMAIN endpoint_configs : StartsWith(path, endpoint_configs[i].endpoint)}
    IN  IF hits # {}
        THEN [requests |-> endpoint_configs[Min(hits)].requests,
              window   |-> endpoint_configs[Min(hits)].window]
        ELSE default_endpoint_config

_parse_time_window(window) ==
    IF Contains(window, S_second) THEN 1
    ELSE IF Contains(window, S_minute) THEN 60
    ELSE IF Contains(window, S_hour) THEN 3600
    ELSE IF Contains(window, S_day) THEN 86400
    ELSE 60

(***************************************************************************)
(* app/middleware/rate_limit_middleware.py: the sliding window.            *)
(* request_counts maps a key to [is_list, list, metrics]: the middleware   *)
(* keeps the timestamp lists of _check_rate_limit and the metrics dicts of *)
(* _update_metrics in the same dictionary, under the same key format.      *)
(***************************************************************************)
\* variant of rate_limit_key that leaves the path out of the key
rate_limit_key_tenant_only(tenant_id, path) == tenant_id

\* f"{tenant_id}:{request.url.path}"
rate_limit_key(tenant_id, path) == tenant_id \o <<":">> \o path

\* variant of _purge that keeps a request exactly one window old
_purge_inclusive(times, cutoff_time) ==
    SelectSeq(times, LAMBDA req_time : req_time >= cutoff_time)

\* the list comprehension that drops the requests older than the window
_purge(times, cutoff_time) == SelectSeq(times, LAMBDA req_time : req_time > cutoff_time)

\* int(x) of a quotient n/d: truncation toward zero
IntTrunc(n, d) == IF n >= 0 THEN n \div d ELSE -((-n) \div d)

\* max(int(oldest_request + window_seconds - current_time), 1), times in ticks
_retry_after(oldest_request, window_ticks, current_time) ==
    Max({IntTrunc(oldest_request + window_ticks - current_time, TicksPerSecond), 1})

NoMetrics == [total_requests |-> 0, successful_requests |-> 0, failed_requests |-> 0]

ListValue(times) == [is_list |-> TRUE, list |-> times, metrics |-> NoMetrics]

MetricsValue(m) == [is_list |-> FALSE, list |-> <<>>, metrics |-> m]

\* dict assignment counts[key] = value
DictSet(counts, key, value) ==
    [k \in DOMAIN counts \cup {key} |-> IF k = key THEN value ELSE counts[k]]

\* variant of _check_rate_limit that admits without recording the timestamp
_check_rate_limit_unrecorded(counts, tenant_id, path, config, current_time) ==
    LET key == rate_limit_key(tenant_id, path)
        times == IF key \in DOMAIN counts THEN counts[key].list ELSE <<>>
        window_ticks == _parse_time_window(config.window) * TicksPerSecond
        kept == _purge(times, current_time - window_ticks)
    IN  IF Len(kept) >= config.requests
        THEN [counts      |-> DictSet(counts, key, ListValue(kept)),
              allowed     |-> FALSE,
              retry_after |-> _retry_after(Min(Range(kept)), window_ticks, current_time)]
        ELSE [counts      |-> DictSet(counts, key, ListValue(kept)),
              allowed     |-> TRUE,
              retry_after |-> 0]

\* _check_rate_limit: the new dictionary and the verdict.  The coroutine has
\* no await in its body, so the event loop runs it as one step.
_check_rate_limit(counts, tenant_id, path, config, current_time) ==
    LET key == rate_limit_key(tenant_id, path)
        times == IF key \in DOMAIN counts THEN counts[key].list ELSE <<>>
        window_ticks == _parse_time_window(config.window) * TicksPerSecond
        kept == _purge(times, current_time - window_ticks)
    IN  IF Len(kept) >= config.requests
        THEN [counts      |-> DictSet(counts, key, ListValue(kept)),
              allowed     |-> FALSE,
              retry_after |-> _retry_after(Min(Range(kept)), window_ticks, current_time)]
        ELSE [counts      |-> DictSet(counts, key, ListValue(Append(kept, current_time))),
              allowed     |-> TRUE,
              retry_after |-> 0]

\* _update_metrics: metrics["total_requests"] += 1 on a timestamp list raises
\* TypeError, which the except clause logs and swallows.
_update_metrics(counts, tenant_id, path, status_code) ==
    LET metric_key == tenant_id \o <<":">> \o path
        old == IF metric_key \in DOMAIN counts THEN counts[metric_key] ELSE MetricsValue(NoMetrics)
        ok  == status_code >= 200 /\ status_code < 400
    IN  IF old.is_list
        THEN counts
        ELSE DictSet(counts, metric_key, MetricsValue(
                 [total_requests      |-> old.metrics.total_requests + 1,
                  successful_requests |-> old.metrics.successful_requests + (IF ok THEN 1 ELSE 0),
                  failed_requests     |-> old.metrics.failed_requests + (IF ok THEN 0 ELSE 1)]))

(***************************************************************************)
(* Requests and clock steps the rate limiter is driven with.               *)
(***************************************************************************)
S_a == <<"a">>

S_a_x == <<"a", ":", "/", "x">>

S_x_upload == <<"/", "x", ":", "/", "u", "p", "l", "o", "a", "d", "/">>

S_ip == <<"1", "0", ".", "0", ".", "0", ".", "9">>

HeaderRequest(tenant, path) ==
    [hdr_tenant |-> Some(tenant), qry_tenant |-> None, path_tenant |-> None,
     hdr_user |-> None, qry_user |-> None, client_host |-> S_ip, path |-> path]

\* tenant "a" on /x:/upload/ (default class), tenant "a:/x" on /upload/,
\* tenant "a" on /upload/
RLRequests ==
    { HeaderRequest(S_a, S_x_upload), HeaderRequest(S_a_x, S_upload), HeaderRequest(S_a, S_upload) }

MinuteTicks == 60 * TicksPerSecond

\* one tick short of a minute, and a minute
TimeSteps == {MinuteTicks - 1, MinuteTicks}

(***************************************************************************)
(* History of admissions, kept as a bag of [tenant_id, path, key, t].      *)
(***************************************************************************)
BagFilter(B, P(_)) == [e \in {x \in DOMAIN B : P(x)} |-> B[e]]

\* admissions under `key` inside the window ending at time t
AdmittedInWindow(key, window_ticks, t) ==
    BagCardinality(BagFilter(admitted, LAMBDA e : e.key = key /\ e.t > t - window_ticks /\ e.t <= t))

\* admissions of one tenant on one path inside the window ending at time t
OwnAdmittedInWindow(tenant_id, path, window_ticks, t) ==
    BagCardinality(BagFilter(admitted,
        LAMBDA e : e.tenant_id = tenant_id /\ e.path = path /\ e.t > t - window_ticks /\ e.t <= t))

NoLast ==
    [op |-> "none", tenant_id |-> <<>>, path |-> <<>>, key |-> <<>>, quota |-> 0,
     window_ticks |-> 0, at |-> 0, status |-> 0, retry_after |-> 0, prior |-> 0, own_prior |-> 0]

(***************************************************************************)
(* RateLimitMiddleware.dispatch.                                           *)
(***************************************************************************)
\* dispatch up to `await call_next(request)`: identity, classification and
\* the admission check; a rejected request is answered with 429 at once.
DispatchStep(request, max_requests, max_in_flight) ==
    LET tenant_id == get_tenant_id_from_request(request)
        path      == request.path
        config    == _get_endpoint_config(path)
        key       == rate_limit_key(tenant_id, path)
        wticks    == _parse_time_window(config.window) * TicksPerSecond
        result    == _check_rate_limit(request_counts, tenant_id, path, config, now)
        info      == [NoLast EXCEPT !.tenant_id = tenant_id, !.path = path, !.key = key,
                          !.quota = config.requests, !.window_ticks = wticks, !.at = now,
                          !.prior = AdmittedInWindow(key, wticks, now),
                          !.own_prior = OwnAdmittedInWindow(tenant_id, path, wticks, now)]
    IN  /\ is_rate_limiting_enabled
        /\ nreq < max_requests
        /\ BagCardinality(pending) < max_in_flight
        /\ nreq' = nreq + 1
        /\ request_counts' = result.counts
        /\ IF result.allowed
           THEN /\ pending' = pending (+) SetToBag({request})
                /\ admitted' = admitted (+)
                       SetToBag({[tenant_id |-> tenant_id, path |-> path, key |-> key, t |-> now]})
                /\ last' = [info EXCEPT !.op = "admit"]
           ELSE /\ last' = [info EXCEPT !.op = "reject", !.status = 429,
                                        !.retry_after = result.retry_after]
                /\ UNCHANGED <<pending, admitted>>
        /\ UNCHANGED <<now, nticks, events_table>>
        /\ UNCHANGED fnVars
        /\ UNCHANGED cacheVars
        /\ UNCHANGED evVars
        /\ UNCHANGED appVars

\* a request arrives while others may be suspended in call_next
DispatchCheck(request) == DispatchStep(request, MaxRequests, MaxInFlight)

\* a request arrives after the previous one has been answered
SerialDispatchCheck(request) == DispatchStep(request, MaxSerialRequests, 1)

\* call_next returned a response: headers are added and _update_metrics runs
CallNextReturns(request, status_code) ==
    LET tenant_id == get_tenant_id_from_request(request)
    IN  /\ BagIn(request, pending)
        /\ pending' = pending (-) SetToBag({request})
        /\ request_counts' = _update_metrics(request_counts, tenant_id, request.path, status_code)
        /\ UNCHANGED <<now, nticks, nreq, last, admitted, events_table>>
        /\ UNCHANGED fnVars
        /\ UNCHANGED cacheVars
        /\ UNCHANGED evVars
        /\ UNCHANGED appVars

\* call_next raised: the except clause answers 500
CallNextRaises(request) ==
        /\ BagIn(request, pending)
        /\ pending' = pending (-) SetToBag({request})
        /\ UNCHANGED <<now, nticks, nreq, request_counts, last, admitted, events_table>>
        /\ UNCHANGED fnVars
        /\ UNCHANGED cacheVars
        /\ UNCHANGED evVars
        /\ UNCHANGED appVars

\* time passes
Tick(d) ==
    /\ nticks < MaxTicks
    /\ now' = now + d
    /\ nticks' = nticks + 1
    /\ UNCHANGED <<nreq, request_counts, pending, last, admitted, events_table>>
    /\ UNCHANGED fnVars
    /\ UNCHANGED cacheVars
    /\ UNCHANGED evVars
    /\ UNCHANGED appVars

(***************************************************************************)
(* Initial values.                                                         *)
(***************************************************************************)
EmptyDict == [k \in {} |-> 0]

NoOut == [op |-> "none", val |-> <<>>]

\* RateLimitMiddleware.__init__: request_counts = {}
InitRL ==
    /\ now = 0
    /\ nticks = 0
    /\ nreq = 0
    /\ request_counts = EmptyDict
    /\ pending = EmptyBag
    /\ last = NoLast
    /\ admitted = EmptyBag
    /\ events_table = <<>>

IdleFn ==
    /\ fn_req = HeaderRequest(S_a, S_upload)
    /\ fn_out = NoOut

NoData ==
    [response |-> "", tenant_id |-> <<>>, agent_id |-> <<>>, query |-> <<>>,
     cached_at |-> 0, ttl |-> 0]

\* what Redis held under the key of a call when the call was made
NoSeen == [up |-> TRUE, present |-> FALSE, readable |-> FALSE, data |-> NoData]

NoCacheRet ==
    [op |-> "none", tenant_id |-> <<>>, agent_id |-> <<>>, query |-> <<>>, at |-> 0,
     failed |-> FALSE, hit |-> FALSE, ok |-> FALSE, data |-> NoData,
     raised |-> FALSE, key |-> <<>>, seen |-> NoSeen,
     count |-> 0, own_removed |-> 0]

IdleCache ==
    /\ default_ttl = 3600
    /\ cache_enabled = TRUE
    /\ redis_client = TRUE
    /\ redis_up = TRUE
    /\ redis_store = EmptyDict
    /\ cache_now = 0
    /\ ncache = 0
    /\ ncticks = 0
    /\ cache_ret = NoCacheRet
    /\ unreadable = {}
    /\ last_put = EmptyDict

\* the listeners events.py registers with @event_system.on(...)
DefaultListeners ==
    [t \in {"error_occurred", "chat_message", "user_login"} |->
        IF t = "error_occurred" THEN <<"log_error_event">>
        ELSE IF t = "chat_message" THEN <<"log_chat_event">>
        ELSE <<"log_user_login">>]

IdleEvents ==
    /\ listeners = DefaultListeners
    /\ emits = <<>>
    /\ tasks = <<>>
    /\ webhook_tasks = <<>>
    /\ ev_log = <<>>

\* no wrapped call, no sweep, no webhook dispatch and no chat turn made yet
IdleApp ==
    /\ sweeps = <<>>
    /\ subscriptions = <<>>
    /\ dispatches = <<>>
    /\ wrap_ret = [op |-> "none", pc |-> "returned"]
    /\ chat_turns = <<>>
    /\ api_ret = [op |-> "none"]

(***************************************************************************)
(* The rate limiter under concurrent requests and a moving clock.          *)
(***************************************************************************)
Init == InitRL /\ IdleFn /\ IdleCache /\ IdleEvents /\ IdleApp

Next ==
    \/ \E request \in RLRequests : DispatchCheck(request)
    \/ \E request \in RLRequests, status_code \in {200} : CallNextReturns(request, status_code)
    \/ \E request \in RLRequests : CallNextRaises(request)
    \/ \E d \in TimeSteps : Tick(d)

Spec == Init /\ [][Next]_vars

(***************************************************************************)
(* The rate limiter serving one request at a time.                         *)
(***************************************************************************)
NextSerial ==
    \/ \E request \in RLRequests : SerialDispatchCheck(request)
    \/ \E request \in RLRequests, status_code \in {200} : CallNextReturns(request, status_code)
    \/ \E request \in RLRequests : CallNextRaises(request)
    \/ \E d \in TimeSteps : Tick(d)

SpecSerial == Init /\ [][NextSerial]_vars

(***************************************************************************)
(* Properties of the rate limiter.                                         *)
(***************************************************************************)
Checked == last.op \in {"admit", "reject"}

\* the timestamp list stored under the key of the last check
LastWindow == request_counts[last.key].list

\* C1: after each admission check the key's stored window holds only
\* timestamps newer than (time of the check - window) and at most `quota` of
\* them, and no more than `quota` requests were admitted under the key inside
\* the window ending at the check.
C1_WindowWithinQuota ==
    Checked =>
        /\ \A i \in DOMAIN LastWindow : LastWindow[i] > last.at - last.window_ticks
        /\ Len(LastWindow) <= last.quota
        /\ AdmittedInWindow(last.key, last.window_ticks, last.at) <= last.quota

\* C2: a check made when `quota` or more admissions of the key lie inside the
\* window is rejected with retry_after >= 1, and a check made when the window
\* has elapsed since every earlier admission of the key is admitted.
C2_RejectThenRecover ==
    Checked =>
        /\ (last.prior >= last.quota => last.op = "reject" /\ last.retry_after >= 1)
        /\ (last.prior = 0 => last.op = "admit")

\* admissions under the key of the last check that are older than its window
ElapsedAdmissions ==
    BagCardinality(BagFilter(admitted,
        LAMBDA e : e.key = last.key /\ e.t <= last.at - last.window_ticks))

\* the quota was used up, the window elapsed, and the key is admitted again
C2_Witness ==
    /\ last.op = "admit"
    /\ last.prior = 0
    /\ ElapsedAdmissions >= last.quota

\* C3: a request is rejected only on account of its own tenant's earlier
\* requests: whenever a request is rejected, the admissions of that same
\* tenant on that path inside the window already fill the quota.
C3_TenantIsolation ==
    last.op = "reject" => last.own_prior >= last.quota

\* occurrences of timestamp t in a list
CountIn(times, t) == Cardinality({i \in DOMAIN times : times[i] = t})

\* admissions logged under key k at time t
Logged(k, t) == BagCardinality(BagFilter(admitted, LAMBDA e : e.key = k /\ e.t = t))

NotFromOtherEndpoints ==
    BagCardinality(BagFilter(admitted,
        LAMBDA e : /\ e.key = last.key
                   /\ e.t > last.at - last.window_ticks
                   /\ e.t <= last.at
                   /\ ~(e.tenant_id = last.tenant_id /\ e.path # last.path)))

\* C6: a tenant's requests to one endpoint never count against the same
\* tenant's quota on another endpoint: a request is rejected only when the
\* admissions that are not this tenant's admissions on other paths fill the
\* quota.
C6_EndpointSeparation ==
    last.op = "reject" => NotFromOtherEndpoints >= last.quota

\* a tenant that has used up its quota on one path is admitted on another
C6_Witness ==
    /\ last.op = "admit"
    /\ \E request \in RLRequests :
           /\ get_tenant_id_from_request(request) = last.tenant_id
           /\ request.path # last.path
           /\ OwnAdmittedInWindow(last.tenant_id, request.path, last.window_ticks, last.at)
                  >= _get_endpoint_config(request.path).requests

S_rate_limit_exceeded == "rate_limit_exceeded"

\* C8: every request rejected with 429 has a persisted rate_limit_exceeded
\* event record.
C8_RejectionEmitsEvent ==
    last.op = "reject" =>
        \E i \in DOMAIN events_table : events_table[i].event_type = S_rate_limit_exceeded

(***************************************************************************)
(* The key-derivation and classification functions applied to one request. *)
(***************************************************************************)
S_th == <<"t", "h">>

S_tq == <<"t", "q">>

S_tp == <<"t", "p">>

S_uh == <<"u", "h">>

S_uq == <<"u", "q">>

\* a source is absent, present but empty, or present with a value
Sources(v) == {None, Some(<<>>), Some(v)}

FnPaths ==
    { S_chat, S_chat_stream, S_chat_batch, S_chat \o <<"x">>, S_auth_login,
      S_upload \o <<"f">>, <<"/", "c", "h", "a", "t">>, <<"/", "h">>, S_x_upload }

FnRequests ==
    [hdr_tenant : Sources(S_th), qry_tenant : Sources(S_tq), path_tenant : Sources(S_tp),
     hdr_user : Sources(S_uh), qry_user : Sources(S_uq), client_host : {S_ip}, path : FnPaths]

InitFn ==
    /\ fn_req \in FnRequests
    /\ fn_out = NoOut

FnTenantId ==
    /\ fn_out' = [op |-> "tenant_id", val |-> get_tenant_id_from_request(fn_req)]
    /\ UNCHANGED fn_req
    /\ UNCHANGED rlVars
    /\ UNCHANGED cacheVars
    /\ UNCHANGED evVars
    /\ UNCHANGED appVars

FnTenantKey ==
    /\ fn_out' = [op |-> "tenant_key", val |-> get_tenant_key(fn_req)]
    /\ UNCHANGED fn_req
    /\ UNCHANGED rlVars
    /\ UNCHANGED cacheVars
    /\ UNCHANGED evVars
    /\ UNCHANGED appVars

FnUserKey ==
    /\ fn_out' = [op |-> "user_key", val |-> get_user_key(fn_req)]
    /\ UNCHANGED fn_req
    /\ UNCHANGED rlVars
    /\ UNCHANGED cacheVars
    /\ UNCHANGED evVars
    /\ UNCHANGED appVars

FnEndpointConfig ==
    /\ fn_out' = [op |-> "endpoint_config", val |-> _get_endpoint_config(fn_req.path)]
    /\ UNCHANGED fn_req
    /\ UNCHANGED rlVars
    /\ UNCHANGED cacheVars
    /\ UNCHANGED evVars
    /\ UNCHANGED appVars

NextFn == FnTenantId \/ FnTenantKey \/ FnUserKey \/ FnEndpointConfig

\* a request is built; the rate limiter and the cache are idle
InitFnSpec == InitFn /\ InitRL /\ IdleCache /\ IdleEvents /\ IdleApp

SpecFn == InitFnSpec /\ [][NextFn]_vars

\* the quota of the longest table prefix the path starts with, else the default
LongestPrefixQuota(path) ==
    LET hits == {i \in DOMAIN endpoint_configs : StartsWith(path, endpoint_configs[i].endpoint)}
        best == CHOOSE i \in hits :
                    \A j \in hits : Len(endpoint_configs[i].endpoint) >= Len(endpoint_configs[j].endpoint)
    IN  IF hits = {} THEN 100 ELSE endpoint_configs[best].requests

\* C5: the quota applied to a path is that of the longest table prefix the
\* path starts with, and the default 100 when no prefix matches.
C5_LongestPrefixMatch ==
    fn_out.op = "endpoint_config" => fn_out.val.requests = LongestPrefixQuota(fn_req.path)

RECURSIVE FirstNonEmpty(_, _)
\* the value of the first non-empty source of the list, else the fallback
FirstNonEmpty(sources, fallback) ==
    IF sources = <<>> THEN fallback
    ELSE IF Truthy(Head(sources)) THEN Head(sources).val
    ELSE FirstNonEmpty(Tail(sources), fallback)

ExpectedTenant ==
    FirstNonEmpty(<<fn_req.hdr_tenant, fn_req.qry_tenant, fn_req.path_tenant>>, fn_req.client_host)

ExpectedUser == FirstNonEmpty(<<fn_req.hdr_user, fn_req.qry_user>>, fn_req.client_host)

\* C7: the tenant identity is the first non-empty of header, query parameter,
\* path parameter, network address; the tenant key is "tenant:<id>" and the
\* user key is "user:<tenant>:<user>", the user id being the first non-empty of
\* user header, user query parameter, network address.
C7_IdentityPrecedence ==
    /\ (fn_out.op = "tenant_id" => fn_out.val = ExpectedTenant)
    /\ (fn_out.op = "tenant_key" => fn_out.val = S_tenant_prefix \o ExpectedTenant)
    /\ (fn_out.op = "user_key" =>
            fn_out.val = S_user_prefix \o ExpectedTenant \o <<":">> \o ExpectedUser)

\* the header is missing, query and path parameter both carry a tenant, and
\* the user key was derived with the user id taken from the query parameter
C7_Witness ==
    /\ fn_out.op = "user_key"
    /\ ~Truthy(fn_req.hdr_tenant)
    /\ Truthy(fn_req.qry_tenant)
    /\ Truthy(fn_req.path_tenant)
    /\ ~Truthy(fn_req.hdr_user)
    /\ Truthy(fn_req.qry_user)
    /\ fn_out.val = S_user_prefix \o S_tq \o <<":">> \o S_uq

(***************************************************************************)
(* app/core/cache.py: the Redis response cache.                            *)
(***************************************************************************)
\* CacheConfig defaults; cache_config passes neither min_ttl nor max_ttl
max_ttl == 86400

min_ttl == 60

S_chat_cache == <<"c", "h", "a", "t", "_", "c", "a", "c", "h", "e">>

\* str.lower() on the characters of the model
LowerChar(c) ==
    CASE c = "H" -> "h"
      [] c = "I" -> "i"
      [] c = "Y" -> "y"
      [] OTHER   -> c

Lower(s) == [i \in DOMAIN s |-> LowerChar(s[i])]

IsSpace(c) == c \in {" ", "\t", "\n"}

\* str.strip(): leading and trailing whitespace removed
Strip(s) ==
    LET solid == {i \in DOMAIN s : ~IsSpace(s[i])}
    IN  IF solid = {} THEN <<>> ELSE SubSeq(s, Min(solid), Max(solid))

HexDigits == <<"0", "1", "2", "3", "4", "5", "6", "7", "8", "9", "a", "b", "c", "d", "e", "f">>

CharCode(c) ==
    CASE c = "h" -> 1
      [] c = "i" -> 2
      [] c = "y" -> 3
      [] c = "o" -> 4
      [] c = "H" -> 5
      [] c = "I" -> 6
      [] c = "Y" -> 7
      [] c = " " -> 8
      [] c = "\t" -> 9
      [] OTHER   -> 10

RECURSIVE Digest(_)
\* stand-in for hashlib.sha256(bytes): a number that differs for every two
\* strings of the model (the strings have at most 6 characters)
Digest(s) == IF s = <<>> THEN 1 ELSE CharCode(Head(s)) + 11 * Digest(Tail(s))

Pow16(n) == IF n = 0 THEN 1 ELSE IF n = 1 THEN 16 ELSE IF n = 2 THEN 256 ELSE IF n = 3 THEN 4096
            ELSE IF n = 4 THEN 65536 ELSE IF n = 5 THEN 1048576 ELSE 16777216

\* .hexdigest()[:16]: sixteen hexadecimal characters
HexDigest16(s) ==
    [i \in 1..16 |-> IF i <= 9 THEN "0" ELSE HexDigits[((Digest(s) \div Pow16(16 - i)) % 16) + 1]]

\* "Hi", " hi\t" and "yo"
CacheQueries == { <<"H", "i">>, <<" ", "h", "i", "\t">>, <<"y", "o">> }

\* the query hashes of the queries in CacheQueries
QueryHashes == [q \in CacheQueries |-> HexDigest16(Strip(Lower(q)))]

\* variant of _query_hash that digests the query as written
_query_hash_raw(query) == HexDigest16(query)

\* hashlib.sha256(query.lower().strip().encode()).hexdigest()[:16]; the
\* digests of the queries in CacheQueries are computed once
_query_hash(query) ==
    IF query \in DOMAIN QueryHashes THEN QueryHashes[query] ELSE HexDigest16(Strip(Lower(query)))

\* f"{cache_prefix}:{tenant_id}:{agent_id}:{query_hash}"
_generate_cache_key(tenant_id, agent_id, query) ==
    S_chat_cache \o <<":">> \o tenant_id \o <<":">> \o agent_id \o <<":">> \o _query_hash(query)

\* the "Validar TTL" block of set_cached_response; ttl is an Optional[int]
_validate_ttl(ttl, default) ==
    IF ~ttl.present THEN default
    ELSE IF ttl.val > max_ttl THEN max_ttl
    ELSE IF ttl.val < min_ttl THEN min_ttl
    ELSE ttl.val

\* variant of Live in which a key never runs out of time
Live_no_expiry(store, key, t) == key \in DOMAIN store

\* a key Redis still serves: SETEX removes the key once ttl seconds have passed
Live(store, key, t) == key \in DOMAIN store /\ t < store[key].expires_at

(***************************************************************************)
(* Arguments the cache is driven with.                                     *)
(***************************************************************************)
S_t == <<"t">>

S_t_a == <<"t", ":", "a">>

S_a_a == <<"a", ":", "a">>

\* (tenant_id, agent_id) pairs: tenant "t" with agents "a" and "a:a", tenant
\* "t:a" with agent "a"
CacheScopes == { <<S_t, S_a>>, <<S_t, S_a_a>>, <<S_t_a, S_a>> }

NoTTL == [present |-> FALSE, val |-> 0]

TTL(n) == [present |-> TRUE, val |-> n]

TTLArgs == {NoTTL, TTL(1), TTL(999999)}

\* values of settings.cache_ttl
DefaultTTLs == {30, 3600, 172800}

CacheTimeSteps == {30, 60}

InitCache ==
    /\ default_ttl \in DefaultTTLs
    /\ cache_enabled \in BOOLEAN
    /\ redis_client \in BOOLEAN
    /\ redis_up = TRUE
    /\ redis_store = EmptyDict
    /\ cache_now = 0
    /\ ncache = 0
    /\ ncticks = 0
    /\ cache_ret = NoCacheRet
    /\ unreadable = {}
    /\ last_put = EmptyDict

(***************************************************************************)
(* RedisCache.set_cached_response, get_cached_response and                 *)
(* clear_tenant_cache, each as a function of the state it reads.  A result *)
(* carries `raised`: whether an exception left the method.                 *)
(***************************************************************************)
\* a response object that pickle.dumps rejects
S_unpicklable == "unpicklable"

Picklable(response) == response # S_unpicklable

\* the keys Redis serves at the current time
LiveKeys == {k \in DOMAIN redis_store : Live(redis_store, k, cache_now)}

\* what Redis holds under a key now
Seen(key) ==
    [up       |-> redis_up,
     present  |-> key \in LiveKeys,
     readable |-> key \in LiveKeys /\ key \notin unreadable,
     data     |-> IF key \in LiveKeys THEN redis_store[key].data ELSE NoData]

\* variant of set_cached_response that reports success without looking at
\* the outcome of setex
set_cached_response_unchecked(tenant_id, agent_id, query, response, ttl) ==
    LET eff        == _validate_ttl(ttl, default_ttl)
        cache_key  == _generate_cache_key(tenant_id, agent_id, query)
        cache_data == [response |-> response, tenant_id |-> tenant_id, agent_id |-> agent_id,
                       query |-> query, cached_at |-> cache_now, ttl |-> eff]
    IN  IF ~cache_enabled \/ ~redis_client
        THEN [ok |-> FALSE, failed |-> FALSE, raised |-> FALSE, written |-> FALSE,
              key |-> cache_key, data |-> cache_data, ttl |-> eff]
        ELSE [ok |-> TRUE, failed |-> FALSE, raised |-> FALSE,
              written |-> Picklable(response) /\ redis_up /\ eff > 0,
              key |-> cache_key, data |-> cache_data, ttl |-> eff]

set_cached_response(tenant_id, agent_id, query, response, ttl) ==
    LET eff        == _validate_ttl(ttl, default_ttl)
        cache_key  == _generate_cache_key(tenant_id, agent_id, query)
        cache_data == [response |-> response, tenant_id |-> tenant_id, agent_id |-> agent_id,
                       query |-> query, cached_at |-> cache_now, ttl |-> eff]
    IN  IF ~cache_enabled \/ ~redis_client
        THEN [ok |-> FALSE, failed |-> FALSE, raised |-> FALSE, written |-> FALSE,
              key |-> cache_key, data |-> cache_data, ttl |-> eff]
        ELSE IF ~Picklable(response) \/ ~redis_up \/ eff <= 0
        THEN \* pickle.dumps or setex raised (connection error, "invalid expire
             \* time"); the except clause returns False
             [ok |-> FALSE, failed |-> TRUE, raised |-> FALSE, written |-> FALSE,
              key |-> cache_key, data |-> cache_data, ttl |-> eff]
        ELSE [ok |-> TRUE, failed |-> FALSE, raised |-> FALSE, written |-> TRUE,
              key |-> cache_key, data |-> cache_data, ttl |-> eff]

\* variant of get_cached_response without the except clause
get_cached_response_unguarded(tenant_id, agent_id, query) ==
    LET cache_key == _generate_cache_key(tenant_id, agent_id, query)
    IN  IF ~cache_enabled \/ ~redis_client
        THEN [hit |-> FALSE, data |-> NoData, failed |-> FALSE, raised |-> FALSE, key |-> cache_key]
        ELSE IF ~redis_up \/ (cache_key \in LiveKeys /\ cache_key \in unreadable)
        THEN [hit |-> FALSE, data |-> NoData, failed |-> TRUE, raised |-> TRUE, key |-> cache_key]
        ELSE IF cache_key \in LiveKeys
        THEN [hit |-> TRUE, data |-> redis_store[cache_key].data, failed |-> FALSE,
              raised |-> FALSE, key |-> cache_key]
        ELSE [hit |-> FALSE, data |-> NoData, failed |-> FALSE, raised |-> FALSE, key |-> cache_key]

get_cached_response(tenant_id, agent_id, query) ==
    LET cache_key == _generate_cache_key(tenant_id, agent_id, query)
    IN  IF ~cache_enabled \/ ~redis_client
        THEN [hit |-> FALSE, data |-> NoData, failed |-> FALSE, raised |-> FALSE, key |-> cache_key]
        ELSE IF ~redis_up \/ (cache_key \in LiveKeys /\ cache_key \in unreadable)
        THEN \* redis get or pickle.loads raised; the except clause returns None
             [hit |-> FALSE, data |-> NoData, failed |-> TRUE, raised |-> FALSE, key |-> cache_key]
        ELSE IF cache_key \in LiveKeys
        THEN [hit |-> TRUE, data |-> redis_store[cache_key].data, failed |-> FALSE,
              raised |-> FALSE, key |-> cache_key]
        ELSE [hit |-> FALSE, data |-> NoData, failed |-> FALSE, raised |-> FALSE, key |-> cache_key]

RECURSIVE GlobMatch(_, _)
\* Redis KEYS pattern matching with "*" and "?" (the patterns built here hold
\* no "[" and no backslash)
GlobMatch(pattern, s) ==
    IF pattern = <<>> THEN s = <<>>
    ELSE IF Head(pattern) = "*"
         THEN GlobMatch(Tail(pattern), s) \/ (s # <<>> /\ GlobMatch(pattern, Tail(s)))
    ELSE IF Head(pattern) = "?"
         THEN s # <<>> /\ GlobMatch(Tail(pattern), Tail(s))
    ELSE s # <<>> /\ Head(s) = Head(pattern) /\ GlobMatch(Tail(pattern), Tail(s))

\* pattern = f"{cache_prefix}:{tenant_id}:*"
tenant_pattern(tenant_id) == S_chat_cache \o <<":">> \o tenant_id \o <<":", "*">>

clear_tenant_cache(tenant_id) ==
    IF ~redis_client
    THEN [count |-> 0, keys |-> {}, failed |-> FALSE, raised |-> FALSE]
    ELSE IF ~redis_up
    THEN \* redis keys raised; the except clause returns 0
         [count |-> 0, keys |-> {}, failed |-> TRUE, raised |-> FALSE]
    ELSE LET keys == {k \in LiveKeys : GlobMatch(tenant_pattern(tenant_id), k)}
         IN  [count |-> Cardinality(keys), keys |-> keys, failed |-> FALSE, raised |-> FALSE]

\* a dictionary without the given keys
DictDrop(d, keys) == [k \in DOMAIN d \ keys |-> d[k]]

(***************************************************************************)
(* The cache operations as steps.                                          *)
(***************************************************************************)
SetStep(tenant_id, agent_id, query, response, ttl, max_calls) ==
    /\ ncache < max_calls
    /\ ncache' = ncache + 1
    /\ \E r \in {set_cached_response(tenant_id, agent_id, query, response, ttl)} :
        LET call == [NoCacheRet EXCEPT !.op = "set", !.tenant_id = tenant_id,
                         !.agent_id = agent_id, !.query = query, !.at = cache_now,
                         !.key = r.key, !.seen = [NoSeen EXCEPT !.up = redis_up],
                         !.ok = r.ok, !.failed = r.failed, !.raised = r.raised]
        IN  IF r.written
            THEN /\ redis_store' = DictSet(redis_store, r.key,
                                       [data |-> r.data, expires_at |-> cache_now + r.ttl])
                 /\ unreadable' = unreadable \ {r.key}
                 /\ last_put' = DictSet(last_put, r.key, r.data)
                 /\ cache_ret' = [call EXCEPT !.data = r.data]
            ELSE /\ cache_ret' = call
                 /\ UNCHANGED <<redis_store, unreadable, last_put>>
    /\ UNCHANGED <<default_ttl, cache_enabled, redis_client, redis_up, cache_now, ncticks>>
    /\ UNCHANGED rlVars
    /\ UNCHANGED fnVars
    /\ UNCHANGED evVars
    /\ UNCHANGED appVars

SetCachedResponse(tenant_id, agent_id, query, response, ttl) ==
    SetStep(tenant_id, agent_id, query, response, ttl, MaxCacheCalls)

GetStep(tenant_id, agent_id, query, max_calls) ==
    /\ ncache < max_calls
    /\ ncache' = ncache + 1
    /\ \E r \in {get_cached_response(tenant_id, agent_id, query)} :
           cache_ret' = [NoCacheRet EXCEPT !.op = "get", !.tenant_id = tenant_id,
                             !.agent_id = agent_id, !.query = query, !.at = cache_now,
                             !.key = r.key, !.seen = Seen(r.key),
                             !.hit = r.hit, !.data = r.data, !.failed = r.failed,
                             !.raised = r.raised]
    /\ UNCHANGED <<default_ttl, cache_enabled, redis_client, redis_up, redis_store,
                   cache_now, ncticks, unreadable, last_put>>
    /\ UNCHANGED rlVars
    /\ UNCHANGED fnVars
    /\ UNCHANGED evVars
    /\ UNCHANGED appVars

GetCachedResponse(tenant_id, agent_id, query) ==
    GetStep(tenant_id, agent_id, query, MaxCacheCalls)

ClearTenantCache(tenant_id) ==
    /\ ncache < MaxFaultCalls
    /\ ncache' = ncache + 1
    /\ \E r \in {clear_tenant_cache(tenant_id)} :
        /\ redis_store' = DictDrop(redis_store, r.keys)
        /\ unreadable' = unreadable \ r.keys
        /\ last_put' = DictDrop(last_put, r.keys)
        /\ cache_ret' = [NoCacheRet EXCEPT !.op = "clear", !.tenant_id = tenant_id,
                             !.at = cache_now,
                             !.seen = [NoSeen EXCEPT !.up = redis_up],
                             !.count = r.count, !.failed = r.failed, !.raised = r.raised,
                             !.own_removed = Cardinality(
                                 {k \in r.keys : redis_store[k].data.tenant_id = tenant_id})]
    /\ UNCHANGED <<default_ttl, cache_enabled, redis_client, redis_up, cache_now, ncticks>>
    /\ UNCHANGED rlVars
    /\ UNCHANGED fnVars
    /\ UNCHANGED evVars
    /\ UNCHANGED appVars

\* the Redis server becomes unreachable, or reachable again
RedisToggle ==
    /\ redis_client
    /\ redis_up' = ~redis_up
    /\ UNCHANGED <<default_ttl, cache_enabled, redis_client, redis_store, cache_now, ncache,
                   ncticks, cache_ret, unreadable, last_put>>
    /\ UNCHANGED rlVars
    /\ UNCHANGED fnVars
    /\ UNCHANGED evVars
    /\ UNCHANGED appVars

\* the bytes stored under a key are replaced by bytes pickle.loads rejects
\* (written by another program or another version of the entry format)
Corrupt ==
    /\ unreadable = {}
    /\ \E k \in LiveKeys :
           unreadable' = {k}
    /\ UNCHANGED <<default_ttl, cache_enabled, redis_client, redis_up, redis_store, cache_now,
                   ncache, ncticks, cache_ret, last_put>>
    /\ UNCHANGED rlVars
    /\ UNCHANGED fnVars
    /\ UNCHANGED evVars
    /\ UNCHANGED appVars

\* time passes; Redis drops the keys whose time to live has run out
CacheTick(d) ==
    /\ ncticks < MaxCacheTicks
    /\ ncticks' = ncticks + 1
    /\ cache_now' = cache_now + d
    /\ redis_store' = [k \in {x \in DOMAIN redis_store : Live(redis_store, x, cache_now + d)}
                          |-> redis_store[k]]
    /\ unreadable' = {k \in unreadable : Live(redis_store, k, cache_now + d)}
    /\ UNCHANGED <<default_ttl, cache_enabled, redis_client, redis_up, ncache, cache_ret, last_put>>
    /\ UNCHANGED rlVars
    /\ UNCHANGED fnVars
    /\ UNCHANGED evVars
    /\ UNCHANGED appVars

NextCache ==
    \/ \E sc \in CacheScopes, q \in CacheQueries, ttl \in TTLArgs :
           SetCachedResponse(sc[1], sc[2], q, "r1", ttl)
    \/ \E sc \in CacheScopes, q \in CacheQueries : GetCachedResponse(sc[1], sc[2], q)
    \/ RedisToggle
    \/ \E d \in CacheTimeSteps : CacheTick(d)

\* the cache is constructed; the rate limiter and the key functions are idle
InitCacheSpec == InitCache /\ InitRL /\ IdleFn /\ IdleEvents /\ IdleApp

SpecCache == InitCacheSpec /\ [][NextCache]_vars

(***************************************************************************)
(* The response cache with storage faults: Redis may be unreachable, a     *)
(* stored value may be unreadable, a response may not be picklable, and a  *)
(* tenant's cache may be cleared.                                          *)
(***************************************************************************)
FaultScopes == { <<S_t, S_a>>, <<S_t_a, S_a>> }

\* "Hi" and "yo"
FaultQueries == { <<"H", "i">>, <<"y", "o">> }

FaultTTLArgs == {NoTTL, TTL(1)}

FaultResponses == {"r1", S_unpicklable}

FaultTenants == {S_t, S_t_a}

SetUnderFaults(tenant_id, agent_id, query, response, ttl) ==
    SetStep(tenant_id, agent_id, query, response, ttl, MaxFaultCalls)

GetUnderFaults(tenant_id, agent_id, query) ==
    GetStep(tenant_id, agent_id, query, MaxFaultCalls)

NextCacheFaults ==
    \/ \E sc \in FaultScopes, q \in FaultQueries, ttl \in FaultTTLArgs, r \in FaultResponses :
           SetUnderFaults(sc[1], sc[2], q, r, ttl)
    \/ \E sc \in FaultScopes, q \in FaultQueries : GetUnderFaults(sc[1], sc[2], q)
    \/ \E tenant_id \in FaultTenants : ClearTenantCache(tenant_id)
    \/ RedisToggle
    \/ Corrupt
    \/ \E d \in CacheTimeSteps : CacheTick(d)

SpecCacheFaults == InitCacheSpec /\ [][NextCacheFaults]_vars


(***************************************************************************)
(* Properties of the response cache.                                       *)
(***************************************************************************)
\* the trimmed, lower-cased form of a query
NormalForm(query) == Lower(Strip(query))

\* the last call was a get that reached Redis
GetAnswered ==
    cache_ret.op = "get" /\ cache_enabled /\ redis_client /\ ~cache_ret.failed

\* C9: a get under (t, a, q2) returns the entry that a put under (t, a, q1)
\* stored, whenever the trimmed lower-cased forms of q1 and q2 are equal and
\* the entry has not expired.
C9_NormalisedQueryHit ==
    GetAnswered =>
        \A k \in DOMAIN redis_store :
            ( /\ Live(redis_store, k, cache_ret.at)
              /\ redis_store[k].data.tenant_id = cache_ret.tenant_id
              /\ redis_store[k].data.agent_id = cache_ret.agent_id
              /\ NormalForm(redis_store[k].data.query) = NormalForm(cache_ret.query) )
            => (cache_ret.hit /\ cache_ret.data = redis_store[k].data)

\* a get was answered with an entry that was put under a differently written query
C9_Witness ==
    /\ GetAnswered
    /\ cache_ret.hit
    /\ cache_ret.data.query # cache_ret.query
    /\ cache_ret.data.tenant_id = cache_ret.tenant_id
    /\ cache_ret.data.agent_id = cache_ret.agent_id

\* C10: every stored entry carries a TTL with min_ttl <= ttl <= max_ttl, and
\* that TTL is the one Redis expires the key with.
C10_TTLWithinBounds ==
    \A k \in DOMAIN redis_store :
        /\ min_ttl <= redis_store[k].data.ttl
        /\ redis_store[k].data.ttl <= max_ttl
        /\ redis_store[k].expires_at = redis_store[k].data.cached_at + redis_store[k].data.ttl

(***************************************************************************)
(* Properties of the response cache under storage faults.                  *)
(***************************************************************************)
\* C11: get_cached_response never raises; it returns a stored entry exactly
\* when the cache is enabled and connected, Redis answers, and the key holds
\* a readable entry (the entry returned is that one), and None otherwise:
\* entry absent, Redis unreachable, stored bytes not deserializable.
C11_GetNeverRaises ==
    cache_ret.op = "get" =>
        /\ ~cache_ret.raised
        /\ cache_ret.hit <=> ( /\ cache_enabled
                               /\ redis_client
                               /\ cache_ret.seen.up
                               /\ cache_ret.seen.present
                               /\ cache_ret.seen.readable )
        /\ (cache_ret.hit => cache_ret.data = cache_ret.seen.data)

\* a get found bytes it could not deserialize and returned None
C11_Witness ==
    /\ cache_ret.op = "get"
    /\ cache_ret.seen.up
    /\ cache_ret.seen.present
    /\ ~cache_ret.seen.readable
    /\ ~cache_ret.hit
    /\ ~cache_ret.raised

\* a step of set_cached_response
IsSetStep == cache_ret'.op = "set" /\ ncache' = ncache + 1

\* C12: set_cached_response never raises; when it returns True the entry is
\* stored under its key, and when it returns False (as it does on every
\* storage failure) the stored entries are what they were before the call.
C12_PutNeverRaises ==
    [][ IsSetStep =>
           /\ ~cache_ret'.raised
           /\ (cache_ret'.ok =>
                  /\ cache_ret'.key \in DOMAIN redis_store'
                  /\ redis_store'[cache_ret'.key].data = cache_ret'.data
                  /\ cache_ret'.data.tenant_id = cache_ret'.tenant_id
                  /\ cache_ret'.data.query = cache_ret'.query
                  /\ cache_ret'.data.cached_at = cache_now)
           /\ (~cache_ret'.ok => redis_store' = redis_store)
           /\ (~redis_up => ~cache_ret'.ok) ]_vars

\* a put failed on an unreachable Redis that holds an earlier entry
C12_Witness ==
    /\ cache_ret.op = "set"
    /\ cache_ret.failed
    /\ ~cache_ret.ok
    /\ ~cache_ret.seen.up
    /\ redis_store # EmptyDict

\* the last call was a get that Redis answered with readable bytes or a miss
GetServed ==
    /\ cache_ret.op = "get"
    /\ cache_enabled
    /\ redis_client
    /\ cache_ret.seen.up
    /\ (cache_ret.seen.present => cache_ret.seen.readable)

\* C13: a get for a key whose latest put was made at cached_at with effective
\* TTL ttl returns None when made after cached_at + ttl, and returns that
\* entry when made before cached_at + ttl.
C13_ExpiredUnreachable ==
    (GetServed /\ cache_ret.key \in DOMAIN last_put) =>
        LET e == last_put[cache_ret.key]
        IN  /\ (cache_ret.at > e.cached_at + e.ttl => ~cache_ret.hit)
            /\ (cache_ret.at < e.cached_at + e.ttl => cache_ret.hit /\ cache_ret.data = e)

\* a get made after the entry's time to live had run out returned None
C13_Witness ==
    /\ GetServed
    /\ cache_ret.key \in DOMAIN last_put
    /\ cache_ret.at > last_put[cache_ret.key].cached_at + last_put[cache_ret.key].ttl
    /\ ~cache_ret.hit

\* C14: after clear_tenant_cache(T) has completed without failure, Redis
\* serves no entry stored by tenant T, and the count returned is the number
\* of T's entries that were removed.
C14_InvalidateTenant ==
    (cache_ret.op = "clear" /\ redis_client /\ ~cache_ret.failed) =>
        /\ \A k \in LiveKeys : redis_store[k].data.tenant_id # cache_ret.tenant_id
        /\ cache_ret.count = cache_ret.own_removed

(***************************************************************************)
(* The event bus: EventSystem of core/events.py.                           *)
(*                                                                         *)
(* An event type argument is either a plain string or a member of the      *)
(* EventType enumeration (class EventType(Enum): a member is not equal to  *)
(* its value and does not hash like it).  Coroutines run without           *)
(* interleaving up to their next suspension: persist_event has none, so    *)
(* emit runs from its entry to the gather of process_listeners in one      *)
(* step, and from there to its return in another.                          *)
(***************************************************************************)
Str(value) == [enum |-> FALSE, value |-> value]

Member(value) == [enum |-> TRUE, value |-> value]

\* the values of EventSystem._critical_events
_critical_events ==
    {"chat_message", "user_login", "user_logout", "agent_created", "agent_updated",
     "agent_deleted", "tenant_created", "tenant_updated", "error_occurred",
     "rate_limit_exceeded"}

\* event_type in [e.value for e in self._critical_events]
should_persist_event(event_type) == ~event_type.enum /\ event_type.value \in _critical_events

\* persist if persist is not None else self.should_persist_event(event_type)
should_persist(persist, event_type) ==
    IF persist.present THEN persist.val ELSE should_persist_event(event_type)

\* self.listeners[event_type], empty when event_type is not a key of the dict
ListenersFor(event_type) ==
    IF ~event_type.enum /\ event_type.value \in DOMAIN listeners
    THEN listeners[event_type.value]
    ELSE <<>>

\* variant of emit_plan that dispatches the listeners before persisting
emit_plan_listeners_first == <<"listeners", "persist", "webhooks">>

\* the body of emit after the event is stamped: persist_event,
\* process_listeners, then the webhook trigger
emit_plan == <<"persist", "listeners", "webhooks">>

\* variant of webhooks_awaited: emit awaits process_event_webhooks
webhooks_awaited_inline == TRUE

\* whether emit waits for process_event_webhooks: it is handed to
\* asyncio.create_task and not awaited
webhooks_awaited == FALSE

\* variant of emit_except that lets the exception leave emit
emit_except_reraise(failed) == [raised |-> failed, emit_error |-> FALSE]

\* the except clause of emit: the exception is logged and emit_error is awaited
emit_except(failed) == [raised |-> FALSE, emit_error |-> failed]

\* variant of _safe_listener_call that swallows the exception of a listener
_safe_listener_call_silent(failed) == [raised |-> FALSE, emit_error |-> FALSE]

\* the except clause of _safe_listener_call: the exception is logged and
\* emit_error is awaited
_safe_listener_call(failed) == [raised |-> FALSE, emit_error |-> failed]

\* emit(event_type, data, persist) is entered in world W, called by `parent`
\* (a producer, a listener task or another emit, through emit_error)
Entered(W, event_type, persist, data_ok, parent) ==
    [W EXCEPT !.emits = Append(@, [event_type |-> event_type, persist |-> persist,
                                   data_ok |-> data_ok, parent |-> parent, phase |-> 0,
                                   wait |-> "none", pc |-> "running",
                                   rejected |-> FALSE, raised |-> FALSE]),
              !.ev_log = Append(@, <<>>)]

\* the state the event bus works on
World == [emits |-> emits, tasks |-> tasks, webhook_tasks |-> webhook_tasks,
          events_table |-> events_table, ev_log |-> ev_log, sweeps |-> sweeps]

\* the tasks process_listeners creates for emit i, one per registered listener
NewTasks(W, i) ==
    LET ls == ListenersFor(W.emits[i].event_type)
    IN  [k \in DOMAIN ls |-> [emit |-> i, listener |-> ls[k], st |-> "created",
                              failed |-> FALSE, err_emit |-> 0]]

\* variant of PersistPhase in which a refused insert ends the emit
PersistPhase_raising(W, i, accepted) ==
    IF should_persist(W.emits[i].persist, W.emits[i].event_type) /\ ~accepted
    THEN [W EXCEPT !.emits[i].rejected = TRUE,
                   !.emits[i].wait = "emit_error",
                   !.ev_log[i] = Append(@, "persist")]
    ELSE W

\* variant of PersistPhase that inserts the row as already processed
PersistPhase_processed(W, i, accepted) ==
    LET row == [event_type |-> W.emits[i].event_type.value,
                enum |-> W.emits[i].event_type.enum,
                emit |-> i, processed |-> TRUE, retry_count |-> 0]
    IN  IF should_persist(W.emits[i].persist, W.emits[i].event_type)
        THEN [W EXCEPT !.events_table = IF accepted THEN Append(@, row) ELSE @,
                       !.emits[i].rejected = ~accepted,
                       !.ev_log[i] = Append(@, "persist")]
        ELSE W

\* persist_event: the insert of the row with processed False and
\* retry_count 0, or the exception it swallows
PersistPhase(W, i, accepted) ==
    LET row == [event_type |-> W.emits[i].event_type.value,
                enum |-> W.emits[i].event_type.enum,
                emit |-> i, processed |-> FALSE, retry_count |-> 0]
    IN  IF should_persist(W.emits[i].persist, W.emits[i].event_type)
        THEN [W EXCEPT !.events_table = IF accepted THEN Append(@, row) ELSE @,
                       !.emits[i].rejected = ~accepted,
                       !.ev_log[i] = Append(@, "persist")]
        ELSE W

\* process_listeners: one task per listener, then gather
ListenersPhase(W, i) ==
    [W EXCEPT !.tasks = @ \o NewTasks(W, i),
              !.emits[i].wait = IF NewTasks(W, i) = <<>> THEN "none" ELSE "listeners",
              !.ev_log[i] = Append(@, "dispatch")]

\* asyncio.create_task(webhook_system.process_event_webhooks(...))
WebhooksPhase(W, i) ==
    [W EXCEPT !.webhook_tasks = Append(@, [emit |-> i, st |-> "pending"]),
              !.emits[i].wait = IF webhooks_awaited THEN "webhooks" ELSE "none",
              !.ev_log[i] = Append(@, "webhooks")]

\* emit i returns, and the coroutine that awaited it goes on: a listener
\* task that awaited emit_error is done, an emit that awaited it returns
Returned(W, i) ==
    LET p == W.emits[i].parent
        W1 == [W EXCEPT !.emits[i].pc = "returned"]
    IN  IF p.kind = "task" THEN [W1 EXCEPT !.tasks[p.id].st = "done"]
        ELSE IF p.kind = "emit"
        THEN [W1 EXCEPT !.emits[p.id].pc = "returned", !.emits[p.id].wait = "none"]
        ELSE W1

RECURSIVE RunFrom(_, _, _, _)
\* emit i runs its parts from the k-th on, up to its next suspension or its return
RunFrom(W, i, k, accepted) ==
    IF k > Len(emit_plan) THEN Returned(W, i)
    ELSE LET W1 == IF emit_plan[k] = "persist" THEN PersistPhase(W, i, accepted)
                   ELSE IF emit_plan[k] = "listeners" THEN ListenersPhase(W, i)
                   ELSE WebhooksPhase(W, i)
             W2 == [W1 EXCEPT !.emits[i].phase = k]
         IN  IF W2.emits[i].wait # "none" THEN W2 ELSE RunFrom(W2, i, k + 1, accepted)

\* emit_error called by `parent`: emit(EventType.ERROR_OCCURRED.value, {...},
\* persist=True), which runs to its first suspension
emit_error(W, parent, accepted) ==
    RunFrom(Entered(W, Str("error_occurred"), [present |-> TRUE, val |-> TRUE], TRUE, parent),
            Len(W.emits) + 1, 1, accepted)

\* the world is stored back
Becomes(W) ==
    /\ emits' = W.emits
    /\ tasks' = W.tasks
    /\ webhook_tasks' = W.webhook_tasks
    /\ events_table' = W.events_table
    /\ ev_log' = W.ev_log

(***************************************************************************)
(* Steps of the event bus.                                                 *)
(***************************************************************************)
\* a producer calls emit(event_type, data, persist); data_ok says whether
\* data is a dict (if not, stamping the event raises); `accepted` says
\* whether the durable store takes the insert made during the step
Emit(event_type, persist, data_ok, accepted) ==
    LET i == Len(emits) + 1
        W0 == Entered(World, event_type, persist, data_ok, [kind |-> "none", id |-> 0])
        r == emit_except(~data_ok)
    IN  /\ Len(emits) + (IF data_ok THEN 1 ELSE 2) <= MaxEmits
        /\ Becomes(IF data_ok THEN RunFrom(W0, i, 1, accepted)
                   ELSE IF r.raised
                   THEN [W0 EXCEPT !.emits[i].pc = "returned", !.emits[i].raised = TRUE]
                   ELSE IF r.emit_error
                   THEN emit_error([W0 EXCEPT !.emits[i].wait = "emit_error"],
                                   [kind |-> "emit", id |-> i], accepted)
                   ELSE [W0 EXCEPT !.emits[i].pc = "returned"])
        /\ UNCHANGED <<now, nticks, nreq, request_counts, pending, last, admitted>>
        /\ UNCHANGED listeners
        /\ UNCHANGED fnVars
        /\ UNCHANGED cacheVars
        /\ UNCHANGED appVars

\* what emit i waits for is finished (gather returns): emit goes on to its return
EmitResume(i, accepted) ==
    /\ i \in DOMAIN emits
    /\ emits[i].pc = "running"
    /\ \/ /\ emits[i].wait = "listeners"
          /\ \A t \in DOMAIN tasks : tasks[t].emit = i => tasks[t].st = "done"
       \/ /\ emits[i].wait = "webhooks"
          /\ \A w \in DOMAIN webhook_tasks :
                 webhook_tasks[w].emit = i => webhook_tasks[w].st # "pending"
    /\ Becomes(RunFrom([World EXCEPT !.emits[i].wait = "none"], i, emits[i].phase + 1, accepted))
    /\ UNCHANGED <<now, nticks, nreq, request_counts, pending, last, admitted>>
    /\ UNCHANGED listeners
    /\ UNCHANGED fnVars
    /\ UNCHANGED cacheVars
    /\ UNCHANGED appVars

\* the event loop starts a listener task: _safe_listener_call calls the listener
ListenerStart(t) ==
    /\ t \in DOMAIN tasks
    /\ tasks[t].st = "created"
    /\ tasks' = [tasks EXCEPT ![t].st = "running"]
    /\ ev_log' = IF tasks[t].emit \in DOMAIN ev_log
                 THEN [ev_log EXCEPT ![tasks[t].emit] = Append(@, "invoke")]
                 ELSE ev_log
    /\ UNCHANGED <<listeners, emits, webhook_tasks>>
    /\ UNCHANGED rlVars
    /\ UNCHANGED fnVars
    /\ UNCHANGED cacheVars
    /\ UNCHANGED appVars

\* the listener returns
ListenerFinish(t) ==
    /\ t \in DOMAIN tasks
    /\ tasks[t].st = "running"
    /\ tasks' = [tasks EXCEPT ![t].st = "done"]
    /\ UNCHANGED <<listeners, emits, webhook_tasks, ev_log>>
    /\ UNCHANGED rlVars
    /\ UNCHANGED fnVars
    /\ UNCHANGED cacheVars
    /\ UNCHANGED appVars

\* the listener raises: _safe_listener_call awaits emit_error, which calls
\* emit; max_emits caps the number of emit calls of a run
ListenerRaiseStep(t, accepted, max_emits) ==
    LET r == _safe_listener_call(TRUE)
    IN  /\ t \in DOMAIN tasks
        /\ tasks[t].st = "running"
        /\ Len(emits) < max_emits
        /\ Becomes(IF r.emit_error
                   THEN emit_error([World EXCEPT !.tasks[t].st = "in_error",
                                                 !.tasks[t].failed = TRUE,
                                                 !.tasks[t].err_emit = Len(emits) + 1],
                                   [kind |-> "task", id |-> t], accepted)
                   ELSE [World EXCEPT !.tasks[t].st = "done", !.tasks[t].failed = TRUE])
        /\ UNCHANGED <<now, nticks, nreq, request_counts, pending, last, admitted>>
        /\ UNCHANGED listeners
        /\ UNCHANGED fnVars
        /\ UNCHANGED cacheVars
        /\ UNCHANGED appVars

\* the listener raises, in the runs of at most MaxEmits emit calls
ListenerRaise(t, accepted) == ListenerRaiseStep(t, accepted, MaxEmits)

\* process_event_webhooks ends: every delivery made, or one failed
WebhookDone(w, st) ==
    /\ w \in DOMAIN webhook_tasks
    /\ webhook_tasks[w].st = "pending"
    /\ webhook_tasks' = [webhook_tasks EXCEPT ![w].st = st]
    /\ UNCHANGED <<listeners, emits, tasks, ev_log>>
    /\ UNCHANGED rlVars
    /\ UNCHANGED fnVars
    /\ UNCHANGED cacheVars
    /\ UNCHANGED appVars

(***************************************************************************)
(* The event bus driven by producers, with listeners that return, raise or *)
(* do not finish, a durable store that may refuse an insert, and webhook   *)
(* deliveries that succeed, fail or hang.                                  *)
(***************************************************************************)
\* the calls of emit: <<event_type, persist, data_ok>>, persist an Optional[bool]
EmitCalls ==
    { <<Str("chat_message"), [present |-> FALSE, val |-> FALSE], TRUE>>,
      <<Member("chat_message"), [present |-> FALSE, val |-> FALSE], TRUE>>,
      <<Str("chat_message"), [present |-> TRUE, val |-> FALSE], TRUE>>,
      <<Str("cache_cleared"), [present |-> FALSE, val |-> FALSE], TRUE>>,
      <<Str("cache_cleared"), [present |-> TRUE, val |-> TRUE], TRUE>>,
      <<Str("chat_message"), [present |-> FALSE, val |-> FALSE], FALSE>> }

\* the registry is the one at import time, or the same after
\* on("chat_message") registered a second listener
InitEventsSpec ==
    /\ listeners \in { DefaultListeners,
                       [DefaultListeners EXCEPT !["chat_message"] =
                            <<"log_chat_event", "notify">>] }
    /\ emits = <<>>
    /\ tasks = <<>>
    /\ webhook_tasks = <<>>
    /\ ev_log = <<>>
    /\ InitRL
    /\ IdleFn
    /\ IdleCache
    /\ IdleApp

NextEvents ==
    \/ \E c \in EmitCalls, accepted \in BOOLEAN : Emit(c[1], c[2], c[3], accepted)
    \/ \E i \in DOMAIN emits, accepted \in BOOLEAN : EmitResume(i, accepted)
    \/ \E t \in DOMAIN tasks : ListenerStart(t)
    \/ \E t \in DOMAIN tasks : ListenerFinish(t)
    \/ \E t \in DOMAIN tasks, accepted \in BOOLEAN : ListenerRaise(t, accepted)
    \/ \E w \in DOMAIN webhook_tasks, st \in {"delivered", "failed"} : WebhookDone(w, st)

SpecEvents == InitEventsSpec /\ [][NextEvents]_vars

(***************************************************************************)
(* The chain of error events: a listener of error_occurred that raises     *)
(* makes _safe_listener_call await emit_error, which emits error_occurred  *)
(* again.                                                                  *)
(***************************************************************************)
MaxChain == 3

\* the listener raises, in the runs of at most MaxChain emit calls
ChainedListenerRaise(t, accepted) == ListenerRaiseStep(t, accepted, MaxChain)

\* the producers: one event with a default listener, and emit_error's own emit
ChainCalls ==
    { <<Str("chat_message"), [present |-> FALSE, val |-> FALSE]>>,
      <<Str("error_occurred"), [present |-> TRUE, val |-> TRUE]>> }

InitChainSpec ==
    /\ IdleEvents
    /\ InitRL
    /\ IdleFn
    /\ IdleCache
    /\ IdleApp

NextChain ==
    \/ \E c \in ChainCalls, accepted \in BOOLEAN : Emit(c[1], c[2], TRUE, accepted)
    \/ \E i \in DOMAIN emits, accepted \in BOOLEAN : EmitResume(i, accepted)
    \/ \E t \in DOMAIN tasks : ListenerStart(t)
    \/ \E t \in DOMAIN tasks : ListenerFinish(t)
    \/ \E t \in DOMAIN tasks, accepted \in BOOLEAN : ChainedListenerRaise(t, accepted)
    \/ \E w \in DOMAIN webhook_tasks, st \in {"delivered", "failed"} : WebhookDone(w, st)

SpecChain == InitChainSpec /\ [][NextChain]_vars

(***************************************************************************)
(* Reprocessing: EventSystem.reprocess_failed_events.                      *)
(*                                                                         *)
(* A sweep selects rows once, then handles them one by one: it awaits      *)
(* process_listeners for the row (suspended while the listener tasks run), *)
(* then updates the row.  `store` says whether the durable store takes the *)
(* update that marks the row (store.mark) and the update of the except     *)
(* clause (store.retry).                                                   *)
(***************************************************************************)
\* variant of reprocess_select without the retry_count filter
reprocess_select_any_retry(table, max_retries) ==
    SelectSeq([r \in DOMAIN table |-> r], LAMBDA r : table[r].processed = FALSE)

\* variant of reprocess_select that leaves out the rows a running sweep has
\* selected and not yet updated
reprocess_select_exclusive(table, max_retries) ==
    SelectSeq([r \in DOMAIN table |-> r],
              LAMBDA r : /\ table[r].processed = FALSE
                         /\ table[r].retry_count <= max_retries
                         /\ \A s \in DOMAIN sweeps :
                                sweeps[s].st = "done"
                                \/ \A k \in sweeps[s].pos..Len(sweeps[s].selected) :
                                       sweeps[s].selected[k] # r)

\* select("*").eq("processed", False).lte("retry_count", max_retries)
reprocess_select(table, max_retries) ==
    SelectSeq([r \in DOMAIN table |-> r],
              LAMBDA r : table[r].processed = FALSE /\ table[r].retry_count <= max_retries)

\* the row the sweep is at has been dispatched: it is marked processed; if
\* that update raises, the except clause stores retry_count + 1 and the
\* error message; if that raises too, the outer except ends the sweep
SweepMarked(W, s, store) ==
    LET sw == W.sweeps[s]
        r == sw.selected[sw.pos]
        row == W.events_table[r]
        upd == IF store.mark THEN [processed |-> TRUE]
               ELSE [retry_count |-> sw.at_select[r].retry_count + 1, error_message |-> "error"]
        failed == \E t \in sw.awaiting : W.tasks[t].failed
        done(how) == [id |-> r, failed |-> failed, how |-> how, tasks |-> sw.awaiting]
    IN  IF store.mark \/ store.retry
        THEN [W EXCEPT !.events_table[r] =
                           [f \in DOMAIN row \cup DOMAIN upd |->
                               IF f \in DOMAIN upd THEN upd[f] ELSE row[f]],
                       !.sweeps[s].handled =
                           Append(@, done(IF store.mark THEN "processed" ELSE "retry")),
                       !.sweeps[s].awaiting = {},
                       !.sweeps[s].pos = @ + 1]
        ELSE [W EXCEPT !.sweeps[s].handled = Append(@, done("aborted")),
                       !.sweeps[s].awaiting = {},
                       !.sweeps[s].pos = Len(sw.selected) + 1]

RECURSIVE SweepFrom(_, _, _)
\* the for loop of the sweep, up to its next suspension in process_listeners
\* or to its end
SweepFrom(W, s, store) ==
    LET sw == W.sweeps[s]
    IN  IF sw.pos > Len(sw.selected) THEN [W EXCEPT !.sweeps[s].st = "done"]
        ELSE LET ls == ListenersFor(Str(W.events_table[sw.selected[sw.pos]].event_type))
                 n == Len(W.tasks)
             IN  IF ls = <<>>
                 THEN SweepFrom(SweepMarked(W, s, store), s, store)
                 ELSE [W EXCEPT !.tasks = @ \o [k \in DOMAIN ls |->
                                     [emit |-> 0, listener |-> ls[k], st |-> "created",
                                      failed |-> FALSE, err_emit |-> 0]],
                                !.sweeps[s].awaiting = (n + 1)..(n + Len(ls)),
                                !.sweeps[s].st = "waiting"]

\* reprocess_failed_events(max_retries) is called; select_ok says whether
\* the store answers the select
ReprocessStep(max_retries, select_ok, store, max_sweeps) ==
    LET s == Len(sweeps) + 1
        sw == [max_retries |-> max_retries, at_select |-> events_table,
               select_ok |-> select_ok,
               selected |-> IF select_ok THEN reprocess_select(events_table, max_retries)
                            ELSE <<>>,
               pos |-> 1, awaiting |-> {}, handled |-> <<>>, st |-> "running"]
    IN  /\ Len(sweeps) < max_sweeps
        /\ \E W \in {SweepFrom([World EXCEPT !.sweeps = Append(@, sw)], s, store)} :
               Becomes(W) /\ sweeps' = W.sweeps
        /\ UNCHANGED <<now, nticks, nreq, request_counts, pending, last, admitted>>
        /\ UNCHANGED <<listeners, subscriptions, dispatches, wrap_ret, chat_turns, api_ret>>
        /\ UNCHANGED fnVars
        /\ UNCHANGED cacheVars

\* a sweep is started after the earlier ones have ended or while they run
ReprocessFailedEvents(max_retries, select_ok, store) ==
    ReprocessStep(max_retries, select_ok, store, MaxSweeps)

\* the gather of process_listeners returns: the row is updated and the
\* sweep goes on
SweepResume(s, store) ==
    /\ s \in DOMAIN sweeps
    /\ sweeps[s].st = "waiting"
    /\ \A t \in sweeps[s].awaiting : tasks[t].st = "done"
    /\ \E W \in {SweepFrom(SweepMarked([World EXCEPT !.sweeps[s].st = "running"], s, store),
                           s, store)} :
           Becomes(W) /\ sweeps' = W.sweeps
    /\ UNCHANGED <<now, nticks, nreq, request_counts, pending, last, admitted>>
    /\ UNCHANGED <<listeners, subscriptions, dispatches, wrap_ret, chat_turns, api_ret>>
    /\ UNCHANGED fnVars
    /\ UNCHANGED cacheVars

\* rows left by earlier emits and sweeps: unprocessed, processed, retried
\* once and retried twice
SeedRows ==
    LET row(event_type, processed, retry_count) ==
            [event_type |-> event_type, enum |-> FALSE, emit |-> 0,
             processed |-> processed, retry_count |-> retry_count]
    IN  << row("chat_message", FALSE, 0), row("chat_message", TRUE, 0),
           row("cache_cleared", FALSE, 1), row("user_login", FALSE, 2) >>

StoreAnswers == [mark : BOOLEAN, retry : BOOLEAN]

InitReprocessSpec ==
    /\ now = 0
    /\ nticks = 0
    /\ nreq = 0
    /\ request_counts = EmptyDict
    /\ pending = EmptyBag
    /\ last = NoLast
    /\ admitted = EmptyBag
    /\ events_table = SeedRows
    /\ IdleFn
    /\ IdleCache
    /\ IdleEvents
    /\ IdleApp

NextReprocess ==
    \/ \E max_retries \in {1, 3}, select_ok \in BOOLEAN, store \in StoreAnswers :
           ReprocessFailedEvents(max_retries, select_ok, store)
    \/ \E s \in DOMAIN sweeps, store \in StoreAnswers : SweepResume(s, store)
    \/ \E t \in DOMAIN tasks : ListenerStart(t)
    \/ \E t \in DOMAIN tasks : ListenerFinish(t)
    \/ \E t \in DOMAIN tasks, accepted \in BOOLEAN : ListenerRaise(t, accepted)
    \/ \E i \in DOMAIN emits, accepted \in BOOLEAN : EmitResume(i, accepted)

SpecReprocess == InitReprocessSpec /\ [][NextReprocess]_vars

(***************************************************************************)
(* Producers and the sweep together: the rows a sweep finds are the ones   *)
(* emit persisted earlier in the run.                                      *)
(***************************************************************************)
\* the producers: a critical event with a default listener, and an event
\* without listeners persisted on request
SweptCalls ==
    { <<Str("chat_message"), [present |-> FALSE, val |-> FALSE]>>,
      <<Str("cache_cleared"), [present |-> TRUE, val |-> TRUE]>> }

InitEmitSweepSpec ==
    /\ IdleEvents
    /\ InitRL
    /\ IdleFn
    /\ IdleCache
    /\ IdleApp

NextEmitSweep ==
    \/ \E c \in SweptCalls, accepted \in BOOLEAN : Emit(c[1], c[2], TRUE, accepted)
    \/ \E i \in DOMAIN emits, accepted \in BOOLEAN : EmitResume(i, accepted)
    \/ \E t \in DOMAIN tasks : ListenerStart(t)
    \/ \E t \in DOMAIN tasks : ListenerFinish(t)
    \/ \E t \in DOMAIN tasks, accepted \in BOOLEAN : ListenerRaise(t, accepted)
    \/ \E w \in DOMAIN webhook_tasks, st \in {"delivered", "failed"} : WebhookDone(w, st)
    \/ \E max_retries \in {1, 3}, select_ok \in BOOLEAN, store \in StoreAnswers :
           ReprocessFailedEvents(max_retries, select_ok, store)
    \/ \E s \in DOMAIN sweeps, store \in StoreAnswers : SweepResume(s, store)

SpecEmitSweep == InitEmitSweepSpec /\ [][NextEmitSweep]_vars

(***************************************************************************)
(* Overlapping sweeps: POST /events/reprocess may be called again while    *)
(* earlier sweeps are suspended in process_listeners; nothing in           *)
(* reprocess_failed_events keeps a second sweep from starting.             *)
(***************************************************************************)
MaxOverlap == 3

OverlappingReprocess(max_retries, select_ok, store) ==
    ReprocessStep(max_retries, select_ok, store, MaxOverlap)

\* one unprocessed chat_message row, and one row already processed
InitSweepsSpec ==
    /\ now = 0
    /\ nticks = 0
    /\ nreq = 0
    /\ request_counts = EmptyDict
    /\ pending = EmptyBag
    /\ last = NoLast
    /\ admitted = EmptyBag
    /\ events_table = SubSeq(SeedRows, 1, 2)
    /\ IdleFn
    /\ IdleCache
    /\ IdleEvents
    /\ IdleApp

NextSweeps ==
    \/ \E select_ok \in BOOLEAN, store \in StoreAnswers :
           OverlappingReprocess(3, select_ok, store)
    \/ \E s \in DOMAIN sweeps, store \in StoreAnswers : SweepResume(s, store)
    \/ \E t \in DOMAIN tasks : ListenerStart(t)
    \/ \E t \in DOMAIN tasks : ListenerFinish(t)
    \/ \E t \in DOMAIN tasks, accepted \in BOOLEAN : ListenerRaise(t, accepted)
    \/ \E i \in DOMAIN emits, accepted \in BOOLEAN : EmitResume(i, accepted)

SpecSweeps == InitSweepsSpec /\ [][NextSweeps]_vars

(***************************************************************************)
(* The history query: EventSystem.get_event_history.  A row of the events  *)
(* table carries here the tenant_id and the timestamp persist_event stores *)
(* with it.                                                                *)
(***************************************************************************)
\* variant of history_limit that returns every matching row
history_limit_unbounded(n, limit) == n

\* .limit(limit) over n matching rows
history_limit(n, limit) == IF n < limit THEN n ELSE limit

\* the answers get_event_history may give, each a sequence of row ids:
\* select("*").eq("tenant_id", ...), .eq("event_type", ...) `if event_type:`,
\* .order("timestamp", desc=True) with rows of equal timestamp in any order,
\* .limit(limit); [] when the select raises
get_event_history(table, tenant_id, event_type, limit, select_ok) ==
    LET matching == {r \in DOMAIN table :
                        /\ table[r].tenant_id = tenant_id
                        /\ (event_type.present /\ event_type.val # "")
                               => table[r].event_type = event_type.val}
        n == history_limit(Cardinality(matching), limit)
    IN  IF ~select_ok THEN {<<>>}
        ELSE {q \in [1..n -> matching] :
                /\ \A a, b \in 1..n : a < b =>
                       q[a] # q[b] /\ table[q[a]].timestamp >= table[q[b]].timestamp
                /\ \A r \in matching \ {q[a] : a \in 1..n} :
                       \A a \in 1..n : table[q[a]].timestamp >= table[r].timestamp}

\* GET /events/history: get_event_history(tenant_id, event_type, limit)
GetEventHistory(tenant_id, event_type, limit, select_ok) ==
    /\ \E q \in get_event_history(events_table, tenant_id, event_type, limit, select_ok) :
           api_ret' = [op |-> "history", tenant_id |-> tenant_id, event_type |-> event_type,
                       limit |-> limit, failed |-> ~select_ok, raised |-> FALSE,
                       result |-> q, table |-> events_table]
    /\ UNCHANGED rlVars
    /\ UNCHANGED fnVars
    /\ UNCHANGED cacheVars
    /\ UNCHANGED evVars
    /\ UNCHANGED <<sweeps, subscriptions, dispatches, wrap_ret, chat_turns>>

\* persisted events of two tenants, three of them with the same timestamp
SeedHistory ==
    LET row(tenant_id, event_type, timestamp) ==
            [event_type |-> event_type, enum |-> FALSE, emit |-> 0, processed |-> FALSE,
             retry_count |-> 0, tenant_id |-> tenant_id, timestamp |-> timestamp]
    IN  << row("t1", "chat_message", 1), row("t1", "user_login", 2),
           row("t2", "chat_message", 3), row("t1", "chat_message", 3),
           row("t1", "chat_message", 3) >>

InitHistorySpec ==
    /\ now = 0
    /\ nticks = 0
    /\ nreq = 0
    /\ request_counts = EmptyDict
    /\ pending = EmptyBag
    /\ last = NoLast
    /\ admitted = EmptyBag
    /\ events_table \in {SubSeq(SeedHistory, 1, n) : n \in 0..Len(SeedHistory)}
    /\ IdleFn
    /\ IdleCache
    /\ IdleEvents
    /\ IdleApp

NextHistory ==
    \E tenant_id \in {"t1", "t2"},
       event_type \in {[present |-> FALSE, val |-> ""], [present |-> TRUE, val |-> ""],
                       [present |-> TRUE, val |-> "chat_message"],
                       [present |-> TRUE, val |-> "user_login"]},
       limit \in {1, 2, 100}, select_ok \in BOOLEAN :
        GetEventHistory(tenant_id, event_type, limit, select_ok)

SpecHistory == InitHistorySpec /\ [][NextHistory]_vars

(***************************************************************************)
(* The webhook dispatcher: WebhookSystem of core/webhooks.py.              *)
(*                                                                         *)
(* A subscription is a row [tenant_id, event_type, is_active] of the       *)
(* webhooks table, identified by its position.  The answer of a            *)
(* subscriber's endpoint is [kind, code]: an HTTP status, a timeout or a   *)
(* network error.                                                          *)
(***************************************************************************)
\* get_webhooks: the active subscriptions of the tenant, of the event type
\* if one is given (`if event_type:`); [] when the select raises
get_webhooks(table, tenant_id, event_type, select_ok) ==
    IF ~select_ok THEN <<>>
    ELSE SelectSeq([w \in DOMAIN table |-> w],
                   LAMBDA w : /\ table[w].tenant_id = tenant_id
                              /\ table[w].is_active
                              /\ (event_type # "" => table[w].event_type = event_type))

\* variant of send_webhook that posts again after a failure
send_webhook_retrying(response) ==
    LET ok == response.kind = "status" /\ response.code \in {200, 201, 202}
    IN  [ok |-> ok, raised |-> FALSE, posts |-> IF ok THEN 1 ELSE 2]

\* send_webhook: one client.post; True for status 200, 201 or 202, False
\* for another status and for an exception
send_webhook(response) ==
    [ok |-> response.kind = "status" /\ response.code \in {200, 201, 202},
     raised |-> FALSE, posts |-> 1]

\* variant of success_count that stops at the first failed delivery
success_count_until_failure(deliveries) ==
    Cardinality({k \in DOMAIN deliveries : \A j \in 1..k : deliveries[j].ok})

\* sum(1 for r in results if r is True)
success_count(deliveries) == Cardinality({k \in DOMAIN deliveries : deliveries[k].ok})

\* the envelope send_webhook posts: event_type is event_data.get("event_type"),
\* the field of the payload process_event_webhooks was handed, None when the
\* payload has none
webhook_payload(webhook, event_data) ==
    [event_type |-> event_data.event_type, data |-> event_data, webhook_id |-> webhook]

\* process_event_webhooks(event_type, event_data) is called, event_data
\* carrying tenant_id ("" when it has none) and its own event_type field or
\* none: up to the gather of the delivery tasks
ProcessEventWebhooks(event_type, tenant_id, data_event_type, select_ok) ==
    LET selected == IF tenant_id = "" THEN <<>>
                    ELSE get_webhooks(subscriptions, tenant_id, event_type, select_ok)
    IN  /\ Len(dispatches) < MaxDispatches
        /\ dispatches' = Append(dispatches,
               [event_type |-> event_type, tenant_id |-> tenant_id, select_ok |-> select_ok,
                event_data |-> [tenant_id |-> tenant_id, event_type |-> data_event_type],
                deliveries |-> [k \in DOMAIN selected |->
                                   [webhook |-> selected[k], st |-> "created",
                                    response |-> [kind |-> "none", code |-> 0],
                                    ok |-> FALSE, raised |-> FALSE, posts |-> 0,
                                    envelope |-> <<>>]],
                success_count |-> 0,
                st |-> IF selected = <<>> THEN "done" ELSE "waiting"])
        /\ UNCHANGED <<sweeps, subscriptions, wrap_ret, chat_turns, api_ret>>
        /\ UNCHANGED rlVars
        /\ UNCHANGED fnVars
        /\ UNCHANGED cacheVars
        /\ UNCHANGED evVars

\* the delivery task k of dispatch d runs send_webhook and gets `response`
SendWebhook(d, k, response) ==
    /\ d \in DOMAIN dispatches
    /\ k \in DOMAIN dispatches[d].deliveries
    /\ dispatches[d].deliveries[k].st = "created"
    /\ \E r \in {send_webhook(response)} :
           dispatches' = [dispatches EXCEPT ![d].deliveries[k] =
               [@ EXCEPT !.st = "done", !.response = response, !.ok = r.ok,
                         !.raised = r.raised, !.posts = @ + r.posts,
                         !.envelope = webhook_payload(dispatches[d].deliveries[k].webhook,
                                                      dispatches[d].event_data)]]
    /\ UNCHANGED <<sweeps, subscriptions, wrap_ret, chat_turns, api_ret>>
    /\ UNCHANGED rlVars
    /\ UNCHANGED fnVars
    /\ UNCHANGED cacheVars
    /\ UNCHANGED evVars

\* the gather of the delivery tasks returns: the successes are counted
WebhooksGathered(d) ==
    /\ d \in DOMAIN dispatches
    /\ dispatches[d].st = "waiting"
    /\ \A k \in DOMAIN dispatches[d].deliveries : dispatches[d].deliveries[k].st = "done"
    /\ dispatches' = [dispatches EXCEPT ![d].st = "done",
                                        ![d].success_count = success_count(dispatches[d].deliveries)]
    /\ UNCHANGED <<sweeps, subscriptions, wrap_ret, chat_turns, api_ret>>
    /\ UNCHANGED rlVars
    /\ UNCHANGED fnVars
    /\ UNCHANGED cacheVars
    /\ UNCHANGED evVars

\* the webhooks table: two tenants, two event types, one inactive row
SeedSubscriptions ==
    LET sub(tenant_id, event_type, is_active) ==
            [tenant_id |-> tenant_id, event_type |-> event_type, is_active |-> is_active]
    IN  << sub("t1", "chat_message", TRUE), sub("t1", "chat_message", TRUE),
           sub("t1", "user_login", TRUE), sub("t1", "chat_message", FALSE),
           sub("t2", "chat_message", TRUE) >>

Responses ==
    {[kind |-> "status", code |-> c] : c \in {200, 202, 204, 500}}
    \cup {[kind |-> "timeout", code |-> 0], [kind |-> "network_error", code |-> 0]}

InitWebhooksSpec ==
    /\ sweeps = <<>>
    /\ subscriptions = SeedSubscriptions
    /\ dispatches = <<>>
    /\ wrap_ret = [op |-> "none", pc |-> "returned"]
    /\ chat_turns = <<>>
    /\ api_ret = [op |-> "none"]
    /\ InitRL
    /\ IdleFn
    /\ IdleCache
    /\ IdleEvents

NextWebhooks ==
    \/ \E event_type \in {"chat_message", "cache_cleared", ""}, tenant_id \in {"t1", "t2", ""},
          data_event_type \in {[present |-> FALSE, val |-> ""],
                               [present |-> TRUE, val |-> "chat_message"]},
          select_ok \in BOOLEAN :
           ProcessEventWebhooks(event_type, tenant_id, data_event_type, select_ok)
    \/ \E d \in DOMAIN dispatches, k \in 1..Len(SeedSubscriptions), response \in Responses :
           SendWebhook(d, k, response)
    \/ \E d \in DOMAIN dispatches : WebhooksGathered(d)

SpecWebhooks == InitWebhooksSpec /\ [][NextWebhooks]_vars

(***************************************************************************)
(* Registration: POST /webhooks/register and DELETE                        *)
(* /webhooks/unregister/{webhook_id}.  The id of a subscription is its     *)
(* position in the table; a deleted row leaves its id unused.              *)
(***************************************************************************)
MaxRegistrations == 1

\* the place of a row that was deleted
NoRow == [tenant_id |-> "", event_type |-> "", is_active |-> FALSE]

\* WebhookSystem.register_webhook: the insert, whose row is returned, or
\* None when the store returns no row or raises
register_webhook(table, tenant_id, event_type, insert_ok) ==
    IF insert_ok
    THEN [webhook |-> Len(table) + 1,
          table |-> Append(table, [tenant_id |-> tenant_id, event_type |-> event_type,
                                   is_active |-> TRUE])]
    ELSE [webhook |-> 0, table |-> table]

\* WebhookSystem.unregister_webhook: delete().eq("id", webhook_id); True when
\* a row was deleted, False when none was or the store raises
unregister_webhook(table, webhook_id, delete_ok) ==
    IF delete_ok /\ webhook_id \in DOMAIN table /\ table[webhook_id] # NoRow
    THEN [success |-> TRUE, table |-> [table EXCEPT ![webhook_id] = NoRow]]
    ELSE [success |-> FALSE, table |-> table]

\* the register endpoint, called by a request that resolves to tenant_id
RegisterWebhook(tenant_id, event_type, insert_ok) ==
    /\ Len(subscriptions) < 2 + MaxRegistrations
    /\ \E r \in {register_webhook(subscriptions, tenant_id, event_type, insert_ok)} :
           /\ subscriptions' = r.table
           /\ api_ret' = [op |-> "register", tenant_id |-> tenant_id, webhook_id |-> r.webhook,
                          status |-> IF r.webhook # 0 THEN 200 ELSE 500]
    /\ UNCHANGED <<sweeps, dispatches, wrap_ret, chat_turns>>
    /\ UNCHANGED rlVars
    /\ UNCHANGED fnVars
    /\ UNCHANGED cacheVars
    /\ UNCHANGED evVars

\* the unregister endpoint, called by a request that resolves to tenant_id:
\* the HTTPException(404) of the else branch is raised inside the try and
\* turned into a 500 by the except clause
UnregisterWebhook(tenant_id, webhook_id, delete_ok) ==
    /\ \E r \in {unregister_webhook(subscriptions, webhook_id, delete_ok)} :
           /\ subscriptions' = r.table
           /\ api_ret' = [op |-> "unregister", tenant_id |-> tenant_id,
                          webhook_id |-> webhook_id,
                          status |-> IF r.success THEN 200 ELSE 500]
    /\ UNCHANGED <<sweeps, dispatches, wrap_ret, chat_turns>>
    /\ UNCHANGED rlVars
    /\ UNCHANGED fnVars
    /\ UNCHANGED cacheVars
    /\ UNCHANGED evVars

\* one active chat_message subscription for each of two tenants
InitRegistrySpec ==
    /\ sweeps = <<>>
    /\ subscriptions = <<SeedSubscriptions[1], SeedSubscriptions[5]>>
    /\ dispatches = <<>>
    /\ wrap_ret = [op |-> "none", pc |-> "returned"]
    /\ chat_turns = <<>>
    /\ api_ret = [op |-> "none"]
    /\ InitRL
    /\ IdleFn
    /\ IdleCache
    /\ IdleEvents

NextRegistry ==
    \/ \E tenant_id \in {"t1", "t2"}, insert_ok \in BOOLEAN :
           RegisterWebhook(tenant_id, "chat_message", insert_ok)
    \/ \E tenant_id \in {"t1", "t2"}, webhook_id \in 1..(2 + MaxRegistrations),
          delete_ok \in BOOLEAN :
           UnregisterWebhook(tenant_id, webhook_id, delete_ok)
    \/ \E tenant_id \in {"t1", "t2"} :
           ProcessEventWebhooks("chat_message", tenant_id,
                                [present |-> FALSE, val |-> ""], TRUE)
    \/ \E d \in DOMAIN dispatches, k \in 1..(2 + MaxRegistrations),
          response \in {[kind |-> "status", code |-> 200], [kind |-> "timeout", code |-> 0]} :
           SendWebhook(d, k, response)
    \/ \E d \in DOMAIN dispatches : WebhooksGathered(d)

SpecRegistry == InitRegistrySpec /\ [][NextRegistry]_vars

(***************************************************************************)
(* The chat turn: send_chat_message of routers/chat.py, which looks the    *)
(* response cache up, runs the inference, writes the cache, saves the turn *)
(* and emits the chat_message event.  The handler has no suspension before *)
(* the emit, so a turn is one step.                                        *)
(***************************************************************************)
MaxTurns == 3

\* the parameters of cache.get_cached_response, none with a default
get_cached_response_params == <<"tenant_id", "agent_id", "query">>

\* the parameters of cache.set_cached_response; ttl has a default
set_cached_response_params == <<"tenant_id", "agent_id", "query", "response", "ttl">>

\* Python binds the arguments of a call to the parameters of the function:
\* TypeError when an argument has no parameter or a parameter without
\* default gets no value
Bind(params, with_default, positional, keywords) ==
    LET by_position == {params[k] : k \in DOMAIN positional \cap DOMAIN params}
        given == by_position \cup DOMAIN keywords
    IN  IF \/ Len(positional) > Len(params)
           \/ ~(DOMAIN keywords \subseteq Range(params))
           \/ by_position \cap DOMAIN keywords # {}
           \/ ~((Range(params) \ with_default) \subseteq given)
        THEN [raised |-> TRUE, args |-> <<>>]
        ELSE [raised |-> FALSE,
              args |-> [p \in given |->
                          IF p \in by_position
                          THEN positional[CHOOSE k \in DOMAIN positional : params[k] = p]
                          ELSE keywords[p]]]

\* _process_ai_message: the answer of the agent; an exception inside is
\* caught and an apology is returned as the answer
_process_ai_message(infer_ok) ==
    [raised |-> FALSE, failed |-> ~infer_ok,
     response |-> IF infer_ok THEN "answer" ELSE "apology"]

\* a turn that has done nothing yet
NoTurn ==
    [status |-> 0, error |-> "none", from_cache |-> FALSE, response |-> "",
     cache_reads |-> 0, inference_calls |-> 0, inference_failed |-> FALSE,
     cache_writes |-> 0, written |-> FALSE, write |-> [written |-> FALSE],
     saved |-> FALSE, emitted |-> FALSE]

\* `except Exception` of send_chat_message: whatever was raised, an
\* HTTPException included, leaves as HTTPException(status_code=500)
chat_except(turn, error) == [turn EXCEPT !.status = 500, !.error = error]

\* send_chat_message for an authenticated user or none (get_current_user
\* returned None), an agent that exists or not, and an inference that works
\* or not
send_chat_message(user, agent_id, message, agent_found, infer_ok) ==
    LET cache_key == <<"ai_response", user.val, agent_id, message>>
        lookup == Bind(get_cached_response_params, {}, <<cache_key>>, <<>>)
    IN  IF ~user.present THEN chat_except(NoTurn, "401")
        ELSE IF lookup.raised THEN chat_except(NoTurn, "TypeError")
        ELSE
        LET cached == get_cached_response(lookup.args.tenant_id, lookup.args.agent_id,
                                          lookup.args.query)
            t1 == [NoTurn EXCEPT !.cache_reads = 1]
        IN  IF cached.hit
            THEN [t1 EXCEPT !.status = 200, !.from_cache = TRUE, !.response = cached.data.response]
            ELSE IF ~agent_found THEN chat_except(t1, "404")
            ELSE
            LET ai == _process_ai_message(infer_ok)
                t2 == [t1 EXCEPT !.inference_calls = 1, !.inference_failed = ai.failed,
                                 !.response = ai.response]
                store == Bind(set_cached_response_params, {"ttl"}, <<cache_key, ai.response>>,
                              [ttl |-> TTL(default_ttl)])
            IN  IF store.raised THEN chat_except(t2, "TypeError")
                ELSE
                LET w == set_cached_response(store.args.tenant_id, store.args.agent_id,
                                             store.args.query, store.args.response,
                                             store.args.ttl)
                IN  [t2 EXCEPT !.status = 200, !.cache_writes = 1, !.written = w.written,
                               !.write = w, !.saved = TRUE, !.emitted = TRUE]

\* POST /chat/: one request handled by send_chat_message; `accepted` says
\* whether the durable store takes the insert of the emitted event
SendChatMessage(user, agent_id, message, agent_found, infer_ok, accepted) ==
    /\ Len(chat_turns) < MaxTurns
    /\ \E r \in {send_chat_message(user, agent_id, message, agent_found, infer_ok)} :
        /\ chat_turns' = Append(chat_turns,
               [user |-> user, agent_id |-> agent_id, message |-> message, at |-> cache_now,
                agent_found |-> agent_found,
                status |-> r.status, error |-> r.error, from_cache |-> r.from_cache,
                response |-> r.response, cache_reads |-> r.cache_reads,
                inference_calls |-> r.inference_calls,
                inference_failed |-> r.inference_failed,
                cache_writes |-> r.cache_writes, written |-> r.written,
                saved |-> r.saved, emitted |-> r.emitted, emit |-> Len(emits) + 1])
        /\ IF r.written
           THEN /\ redis_store' = DictSet(redis_store, r.write.key,
                        [data |-> r.write.data, expires_at |-> cache_now + r.write.ttl])
                /\ unreadable' = unreadable \ {r.write.key}
                /\ last_put' = DictSet(last_put, r.write.key, r.write.data)
           ELSE UNCHANGED <<redis_store, unreadable, last_put>>
        /\ IF r.emitted
           THEN \* event_system.emit(EventType.CHAT_MESSAGE, {...}), awaited
                Becomes(RunFrom(Entered(World, Member("chat_message"),
                                        [present |-> FALSE, val |-> FALSE], TRUE,
                                        [kind |-> "none", id |-> 0]),
                                Len(emits) + 1, 1, accepted))
           ELSE UNCHANGED <<emits, tasks, webhook_tasks, events_table, ev_log>>
    /\ UNCHANGED <<default_ttl, cache_enabled, redis_client, redis_up, cache_now, ncache,
                   ncticks, cache_ret>>
    /\ UNCHANGED <<now, nticks, nreq, request_counts, pending, last, admitted>>
    /\ UNCHANGED listeners
    /\ UNCHANGED fnVars
    /\ UNCHANGED <<sweeps, subscriptions, dispatches, wrap_ret, api_ret>>

\* the users, agents and messages of the turns: nobody signed in, or one of
\* two users
ChatUsers == {None, Some(<<"u", "1">>), Some(<<"u", "2">>)}

InitChatSpec == InitRL /\ IdleFn /\ IdleCache /\ IdleEvents /\ IdleApp

NextChat ==
    \/ \E user \in ChatUsers, agent_id \in {S_a, S_a_a}, message \in {<<"H", "i">>, <<"y", "o">>},
          agent_found \in BOOLEAN, infer_ok \in BOOLEAN, accepted \in BOOLEAN :
           SendChatMessage(user, agent_id, message, agent_found, infer_ok, accepted)
    \/ \E d \in CacheTimeSteps : CacheTick(d)

SpecChat == InitChatSpec /\ [][NextChat]_vars

(***************************************************************************)
(* The cache_response decorator: the wrapper looks the cache up, awaits    *)
(* the wrapped function on a miss and stores what it returned.  The        *)
(* wrapper is suspended while the wrapped function runs, so a call is two  *)
(* steps with the cache free to change in between.                         *)
(***************************************************************************)
MaxWrapperCalls == 2

\* variant of wrapper_if_response that stores whatever the function returned
wrapper_if_response_always(response) == TRUE

\* `if response:` of the wrapper: a falsy result (None, an empty dict or
\* string) is not stored
wrapper_if_response(response) == response # ""

\* the wrapper is entered: cache_enabled, the Request among the arguments,
\* all([tenant_id, agent_id, query]), then the lookup
CacheResponseCall(request_found, tenant_id, agent_id, query, ttl) ==
    LET call == [op |-> "call", pc |-> "awaiting", enabled |-> cache_enabled,
                 tenant_id |-> tenant_id, agent_id |-> agent_id, query |-> query,
                 ttl |-> ttl, at |-> cache_now, lookups |-> 0, hit |-> FALSE,
                 cached |-> NoData, func_calls |-> 0, sets |-> 0, written |-> FALSE,
                 stored |-> NoData, set_ok |-> FALSE, raised |-> FALSE, value |-> ""]
    IN  /\ wrap_ret.pc = "returned"
        /\ ncache < MaxWrapperCalls
        /\ ncache' = ncache + 1
        /\ IF \/ ~cache_enabled
              \/ ~request_found
              \/ ~(Truthy(tenant_id) /\ Truthy(agent_id) /\ Truthy(query))
           THEN wrap_ret' = call
           ELSE \E r \in {get_cached_response(tenant_id.val, agent_id.val, query.val)} :
                    wrap_ret' = IF r.hit
                                THEN [call EXCEPT !.pc = "returned", !.lookups = 1,
                                                  !.hit = TRUE, !.cached = r.data,
                                                  !.value = r.data.response]
                                ELSE [call EXCEPT !.lookups = 1]
        /\ UNCHANGED <<default_ttl, cache_enabled, redis_client, redis_up, redis_store,
                       cache_now, ncticks, cache_ret, unreadable, last_put>>
        /\ UNCHANGED rlVars
        /\ UNCHANGED fnVars
        /\ UNCHANGED evVars
        /\ UNCHANGED <<sweeps, subscriptions, dispatches, chat_turns, api_ret>>

\* the wrapped function returns `value` or raises; the wrapper stores a
\* truthy value when it had looked the cache up, and returns
CacheResponseReturn(raised, value) ==
    /\ wrap_ret.op = "call"
    /\ wrap_ret.pc = "awaiting"
    /\ LET done == [wrap_ret EXCEPT !.pc = "returned", !.func_calls = 1,
                                    !.raised = raised, !.value = IF raised THEN "" ELSE value]
       IN  IF ~raised /\ wrap_ret.lookups = 1 /\ wrapper_if_response(value)
           THEN \E w \in {set_cached_response(wrap_ret.tenant_id.val, wrap_ret.agent_id.val,
                                              wrap_ret.query.val, value, wrap_ret.ttl)} :
                    /\ wrap_ret' = [done EXCEPT !.sets = 1, !.written = w.written,
                                                !.set_ok = w.ok, !.stored = w.data]
                    /\ IF w.written
                       THEN /\ redis_store' = DictSet(redis_store, w.key,
                                    [data |-> w.data, expires_at |-> cache_now + w.ttl])
                            /\ unreadable' = unreadable \ {w.key}
                            /\ last_put' = DictSet(last_put, w.key, w.data)
                       ELSE UNCHANGED <<redis_store, unreadable, last_put>>
           ELSE /\ wrap_ret' = done
                /\ UNCHANGED <<redis_store, unreadable, last_put>>
    /\ UNCHANGED <<default_ttl, cache_enabled, redis_client, redis_up, cache_now, ncache,
                   ncticks, cache_ret>>
    /\ UNCHANGED rlVars
    /\ UNCHANGED fnVars
    /\ UNCHANGED evVars
    /\ UNCHANGED <<sweeps, subscriptions, dispatches, chat_turns, api_ret>>

\* a response is stored directly, so that a later wrapped call finds it
SetBeforeWrapper(tenant_id, agent_id, query, response, ttl) ==
    SetStep(tenant_id, agent_id, query, response, ttl, MaxWrapperCalls)

NextWrapper ==
    \/ \E request_found \in BOOLEAN, tenant_id \in {None, Some(S_t)},
          query \in {Some(<<"H", "i">>), Some(<<"y", "o">>)}, ttl \in {NoTTL, TTL(1)} :
           CacheResponseCall(request_found, tenant_id, Some(S_a), query, ttl)
    \/ \E raised \in BOOLEAN, value \in {"r1", "", S_unpicklable} :
           CacheResponseReturn(raised, value)
    \/ \E q \in {<<"H", "i">>, <<"y", "o">>} : SetBeforeWrapper(S_t, S_a, q, "r0", NoTTL)
    \/ RedisToggle
    \/ \E d \in CacheTimeSteps : CacheTick(d)

SpecWrapper == InitCacheSpec /\ [][NextWrapper]_vars

(***************************************************************************)
(* The rate limiter driven by one tenant on two paths of one endpoint      *)
(* class, one request at a time.                                           *)
(***************************************************************************)
\* tenant "a" on /upload/ and on /upload/a, both classified by "/upload/"
ClassRequests == { HeaderRequest(S_a, S_upload), HeaderRequest(S_a, S_upload \o <<"a">>) }

NextClasses ==
    \/ \E request \in ClassRequests : SerialDispatchCheck(request)
    \/ \E request \in ClassRequests, status_code \in {200} : CallNextReturns(request, status_code)
    \/ \E request \in ClassRequests : CallNextRaises(request)
    \/ \E d \in TimeSteps : Tick(d)

SpecClasses == Init /\ [][NextClasses]_vars

(***************************************************************************)
(* Properties of the event bus.                                            *)
(***************************************************************************)
RowsOf(i) == {r \in DOMAIN events_table : events_table[r].emit = i}

\* C15: an emit of a critical event type that has returned, the store not
\* having refused an insert, has left a persisted record of the event with
\* processed = FALSE and retry_count = 0, whatever persist argument was passed.
C15_CriticalPersisted ==
    \A i \in DOMAIN emits :
        (/\ emits[i].pc = "returned"
         /\ emits[i].event_type.value \in _critical_events
         /\ ~emits[i].rejected)
        => \E r \in RowsOf(i) : /\ events_table[r].processed = FALSE
                                /\ events_table[r].retry_count = 0

ListenerIsolated(t) ==
    /\ ~emits[tasks[t].emit].raised
    /\ emits[tasks[t].emit].pc = "returned"
       => \A u \in DOMAIN tasks : tasks[u].emit = tasks[t].emit => tasks[u].st = "done"
    /\ tasks[t].err_emit \in DOMAIN emits

ErrorRows(t) ==
    Cardinality({r \in RowsOf(tasks[t].err_emit) :
                    events_table[r].event_type = "error_occurred"})

\* C16 as stated: a listener that raised leaves the emitter without an
\* exception, its siblings run to completion before emit returns, and
\* exactly one error_occurred record is persisted for the failure.
C16_ExactlyOneErrorEvent ==
    \A t \in DOMAIN tasks : tasks[t].failed => ListenerIsolated(t) /\ ErrorRows(t) = 1

\* C16: a listener that raised leaves the emitter without an exception, its
\* siblings run to completion before emit returns, and one error_occurred
\* emit is made for the failure, which persists exactly one record when the
\* store accepts the insert and none when the store refuses it.
C16_ListenerIsolation ==
    \A t \in DOMAIN tasks :
        tasks[t].failed =>
            /\ ListenerIsolated(t)
            /\ emits[tasks[t].err_emit].event_type = Str("error_occurred")
            /\ ErrorRows(t) = IF emits[tasks[t].err_emit].rejected THEN 0 ELSE 1

C16_Witness ==
    \E t, u \in DOMAIN tasks :
        /\ t # u
        /\ tasks[t].emit = tasks[u].emit
        /\ tasks[t].failed
        /\ ~tasks[u].failed
        /\ tasks[u].st = "done"
        /\ emits[tasks[t].emit].pc = "returned"
        /\ ErrorRows(t) = 1

Has(l, what) == \E a \in DOMAIN l : l[a] = what

\* C17: within one emit the durable write, when the event is to be
\* persisted, is made before the listeners are dispatched or invoked, and
\* the webhook fan-out is started only after the listeners were dispatched.
C17_EmitOrdering ==
    \A i \in DOMAIN emits :
        /\ \A a, b \in DOMAIN ev_log[i] :
               /\ (ev_log[i][a] = "persist" /\ ev_log[i][b] \in {"dispatch", "invoke"}) => a < b
               /\ (ev_log[i][a] = "dispatch" /\ ev_log[i][b] = "webhooks") => a < b
        /\ (should_persist(emits[i].persist, emits[i].event_type)
              /\ (Has(ev_log[i], "dispatch") \/ Has(ev_log[i], "invoke")))
           => Has(ev_log[i], "persist")
        /\ Has(ev_log[i], "webhooks") => Has(ev_log[i], "dispatch")

C17_Witness ==
    \E i \in DOMAIN emits :
        ev_log[i] = <<"persist", "dispatch", "invoke", "invoke", "webhooks">>

\* C18: no call of emit lets an exception reach its caller, whether the
\* payload is malformed, the store refuses the insert, a listener raises or
\* a webhook delivery fails.
C18_EmitNeverRaises ==
    \A i \in DOMAIN emits : ~emits[i].raised

C18_Witness ==
    \E i \in DOMAIN emits :
        /\ ~emits[i].data_ok
        /\ emits[i].pc = "returned"
        /\ \E j \in DOMAIN emits :
               emits[j].parent = [kind |-> "emit", id |-> i] /\ emits[j].rejected

WebhooksOf(i) == {w \in DOMAIN webhook_tasks : webhook_tasks[w].emit = i}

\* C19: emit never waits for the webhook deliveries of its event, and an
\* emit whose deliveries failed or are still pending has returned normally.
C19_WebhooksNotAwaited ==
    \A i \in DOMAIN emits :
        /\ emits[i].wait # "webhooks"
        /\ WebhooksOf(i) # {} => emits[i].pc = "returned" /\ ~emits[i].raised

C19_Witness ==
    \E i \in DOMAIN emits, j \in DOMAIN emits :
        /\ i # j
        /\ emits[i].pc = "returned"
        /\ emits[j].pc = "returned"
        /\ \E w \in WebhooksOf(i) : webhook_tasks[w].st = "pending"
        /\ \E w \in WebhooksOf(j) : webhook_tasks[w].st = "failed"

\* C20: an emit is never held back by a listener that has not finished.
C20_ProducerNotBlocked ==
    \A i \in DOMAIN emits :
        ~(/\ emits[i].pc = "running"
          /\ emits[i].wait = "listeners"
          /\ \E t \in DOMAIN tasks : tasks[t].emit = i /\ tasks[t].st # "done")

TasksOf(i) == {t \in DOMAIN tasks : tasks[t].emit = i}

\* C21: an emit whose insert the durable store refused has still dispatched
\* one task per listener registered for its type, raises nothing, and has
\* returned only after every one of these listeners ran and the webhook
\* fan-out was started.
C21_PersistFailureSwallowed ==
    \A i \in DOMAIN emits :
        emits[i].rejected =>
            /\ ~emits[i].raised
            /\ Has(ev_log[i], "dispatch")
            /\ Cardinality(TasksOf(i)) = Len(ListenersFor(emits[i].event_type))
            /\ emits[i].pc = "returned" =>
                   /\ \A t \in TasksOf(i) : tasks[t].st = "done"
                   /\ Has(ev_log[i], "webhooks")
                   /\ WebhooksOf(i) # {}

C21_Witness ==
    \E i \in DOMAIN emits :
        /\ emits[i].rejected
        /\ emits[i].event_type = Str("chat_message")
        /\ emits[i].pc = "returned"
        /\ Cardinality(TasksOf(i)) = 2
        /\ RowsOf(i) = {}

(***************************************************************************)
(* Properties of reprocessing.                                             *)
(***************************************************************************)
Eligible(row, max_retries) == row.processed = FALSE /\ row.retry_count <= max_retries

HandledBy(s) == {sweeps[s].handled[k].id : k \in DOMAIN sweeps[s].handled}

\* C22: every row a sweep with max_retries = N has dispatched or updated was,
\* when the sweep selected, unprocessed with retry_count <= N; a row no
\* sweep has handled is as it was.
C22_SweepSelection ==
    /\ \A s \in DOMAIN sweeps :
           /\ \A r \in HandledBy(s) :
                  Eligible(sweeps[s].at_select[r], sweeps[s].max_retries)
           /\ sweeps[s].st = "waiting" =>
                  Eligible(sweeps[s].at_select[sweeps[s].selected[sweeps[s].pos]],
                           sweeps[s].max_retries)
    /\ \A r \in DOMAIN SeedRows :
           (\A s \in DOMAIN sweeps : r \notin HandledBy(s)) => events_table[r] = SeedRows[r]

C22_Witness ==
    \E s \in DOMAIN sweeps :
        /\ sweeps[s].max_retries = 1
        /\ sweeps[s].st = "done"
        /\ HandledBy(s) = {1, 3}
        /\ events_table[1].processed
        /\ events_table[4] = SeedRows[4]

\* C23: when the store takes the updates of the sweep, a row whose
\* re-dispatch succeeded is marked processed, and a row one of whose
\* listeners raised during the re-dispatch stays unprocessed, with
\* retry_count increased by exactly one and the error message recorded.
C23_SweepOutcome ==
    \A s \in DOMAIN sweeps : \A k \in DOMAIN sweeps[s].handled :
        LET h == sweeps[s].handled[k]
            row == events_table[h.id]
        IN  IF h.how = "aborted" THEN TRUE
            ELSE IF h.failed
            THEN /\ row.processed = FALSE
                 /\ row.retry_count = sweeps[s].at_select[h.id].retry_count + 1
                 /\ "error_message" \in DOMAIN row
            ELSE h.how = "processed" => row.processed = TRUE

(***************************************************************************)
(* Properties of the webhook dispatcher.                                   *)
(***************************************************************************)
Matching(d) ==
    {w \in DOMAIN subscriptions :
        /\ subscriptions[w].tenant_id = dispatches[d].tenant_id
        /\ subscriptions[w].event_type = dispatches[d].event_type
        /\ subscriptions[w].is_active}

Targets(d) == {dispatches[d].deliveries[k].webhook : k \in DOMAIN dispatches[d].deliveries}

\* C24: a dispatch delivers to no subscription other than the active ones
\* registered for its tenant and event type, to each of these once when the
\* lookup succeeded, and sends nothing when there is none.
C24_ExactSubscribers ==
    \A d \in DOMAIN dispatches :
        /\ Targets(d) \subseteq Matching(d)
        /\ dispatches[d].select_ok => Targets(d) = Matching(d)
        /\ Cardinality(Targets(d)) = Len(dispatches[d].deliveries)

Accepted(response) == response.kind = "status" /\ response.code \in {200, 201, 202}

\* C25: the result of each delivery depends on the answer of its own
\* subscriber only, each subscriber gets its delivery whatever happened to
\* the others, and the number of successes counted by the dispatch is the
\* number of subscribers whose endpoint accepted the request.
C25_IndependentDeliveries ==
    \A d \in DOMAIN dispatches :
        /\ \A k \in DOMAIN dispatches[d].deliveries :
               dispatches[d].deliveries[k].st = "done" =>
                   dispatches[d].deliveries[k].ok = Accepted(dispatches[d].deliveries[k].response)
        /\ dispatches[d].st = "done" =>
               /\ \A k \in DOMAIN dispatches[d].deliveries :
                      dispatches[d].deliveries[k].st = "done"
               /\ dispatches[d].success_count =
                      Cardinality({k \in DOMAIN dispatches[d].deliveries :
                                      Accepted(dispatches[d].deliveries[k].response)})

C25_Witness ==
    \E d \in DOMAIN dispatches :
        /\ dispatches[d].st = "done"
        /\ Len(dispatches[d].deliveries) = 2
        /\ dispatches[d].deliveries[1].response.kind = "timeout"
        /\ dispatches[d].deliveries[2].response.code = 200
        /\ dispatches[d].success_count = 1

\* C26: a delivery that has run made exactly one POST, raised nothing, and
\* reports success exactly when the answer was status 200, 201 or 202.
C26_SingleAttempt ==
    \A d \in DOMAIN dispatches : \A k \in DOMAIN dispatches[d].deliveries :
        LET x == dispatches[d].deliveries[k]
        IN  x.st = "done" =>
                /\ x.posts = 1
                /\ ~x.raised
                /\ x.ok <=> (x.response.kind = "status" /\ x.response.code \in {200, 201, 202})

C26_Witness ==
    \E d \in DOMAIN dispatches : \E j, k \in DOMAIN dispatches[d].deliveries :
        /\ dispatches[d].deliveries[j].response = [kind |-> "status", code |-> 202]
        /\ dispatches[d].deliveries[j].ok
        /\ dispatches[d].deliveries[k].response = [kind |-> "status", code |-> 204]
        /\ ~dispatches[d].deliveries[k].ok
        /\ dispatches[d].deliveries[k].posts = 1

(***************************************************************************)
(* Properties of the chat turn.                                            *)
(***************************************************************************)
\* turns i and j carry the same user, agent and message
SameChat(i, j) ==
    /\ chat_turns[i].user.present
    /\ chat_turns[i].user = chat_turns[j].user
    /\ chat_turns[i].agent_id = chat_turns[j].agent_id
    /\ chat_turns[i].message = chat_turns[j].message

\* C27: when the same user sends the same message to the same agent twice in
\* succession, with less than the time to live between the two requests, the
\* first request runs the inference once and writes the cache once, and the
\* second is answered from the cache: no inference call, no cache write, and
\* the response of the first request.
C27_SecondTurnFromCache ==
    \A i \in DOMAIN chat_turns, j \in DOMAIN chat_turns :
        ( /\ j = i + 1
          /\ SameChat(i, j)
          /\ \A k \in 1..(i - 1) : ~SameChat(k, i)
          /\ chat_turns[j].at < chat_turns[i].at + default_ttl )
        => /\ chat_turns[i].inference_calls = 1
           /\ chat_turns[i].cache_writes = 1
           /\ chat_turns[j].from_cache
           /\ chat_turns[j].inference_calls = 0
           /\ chat_turns[j].cache_writes = 0
           /\ chat_turns[j].response = chat_turns[i].response

\* a turn reached the inference step
InferenceReached == \E i \in DOMAIN chat_turns : chat_turns[i].inference_calls > 0

(***************************************************************************)
(* Properties of the cache_response wrapper.                               *)
(***************************************************************************)
\* a call through the wrapper has returned
WrapperReturned == wrap_ret.op = "call" /\ wrap_ret.pc = "returned"

\* what a returned call owes in every case: with the cache disabled the
\* function is called once and the cache is neither read nor written; on a
\* hit the function is not called, nothing is written and the cached
\* response is returned; on a miss the function is called once
WrapperCalls ==
    /\ ~wrap_ret.enabled =>
           wrap_ret.func_calls = 1 /\ wrap_ret.lookups = 0 /\ wrap_ret.sets = 0
    /\ wrap_ret.hit =>
           /\ wrap_ret.func_calls = 0
           /\ wrap_ret.sets = 0
           /\ wrap_ret.value = wrap_ret.cached.response
    /\ (wrap_ret.lookups = 1 /\ ~wrap_ret.hit) => wrap_ret.func_calls = 1

\* C29 as stated: the wrapper calls the wrapped function zero times and
\* writes nothing on a hit, returning the cached response; on a miss it
\* calls the function exactly once and writes its result to the cache
\* exactly once; with the cache disabled it always calls the function and
\* never touches the cache.
C29_WrapperHitMissDisabled ==
    WrapperReturned =>
        /\ WrapperCalls
        /\ (wrap_ret.lookups = 1 /\ ~wrap_ret.hit /\ ~wrap_ret.raised) =>
               /\ wrap_ret.sets = 1
               /\ wrap_ret.written
               /\ wrap_ret.stored.response = wrap_ret.value

\* C29, amended: as stated for the hit and for the disabled cache; on a miss
\* the function is called exactly once, and its result is handed to the
\* cache exactly once when it is truthy and not at all when it is falsy or
\* the function raised; the cache keeps it when it accepts the write.
C29_WrapperWritesTruthyResult ==
    WrapperReturned =>
        /\ WrapperCalls
        /\ (wrap_ret.lookups = 1 /\ ~wrap_ret.hit) =>
               /\ wrap_ret.sets = (IF ~wrap_ret.raised /\ wrap_ret.value # "" THEN 1 ELSE 0)
               /\ wrap_ret.written => wrap_ret.sets = 1 /\ wrap_ret.set_ok
               /\ wrap_ret.written => wrap_ret.stored.response = wrap_ret.value
               /\ (wrap_ret.sets = 1 /\ wrap_ret.set_ok) => wrap_ret.written

\* a miss whose function returned a falsy result, while the cache holds an entry
C29_Witness ==
    /\ WrapperReturned
    /\ wrap_ret.lookups = 1
    /\ ~wrap_ret.hit
    /\ ~wrap_ret.raised
    /\ wrap_ret.value = ""
    /\ wrap_ret.func_calls = 1
    /\ redis_store # EmptyDict

(***************************************************************************)
(* Properties of the rate limiter's key.                                   *)
(***************************************************************************)
\* the endpoint class of a path: the entry of endpoint_configs that
\* _get_endpoint_config returns for it, 0 for the default configuration
EndpointClass(path) ==
    LET hits == {i \in DOMAIN endpoint_configs : StartsWith(path, endpoint_configs[i].endpoint)}
    IN  IF hits # {} THEN Min(hits) ELSE 0

\* admissions of the tenant of the last check, on any path of the class of
\* its path, inside the window ending at the check
ClassAdmittedInWindow ==
    BagCardinality(BagFilter(admitted,
        LAMBDA e : /\ e.tenant_id = last.tenant_id
                   /\ EndpointClass(e.path) = EndpointClass(last.path)
                   /\ e.t > last.at - last.window_ticks
                   /\ e.t <= last.at))

\* C30: the window is keyed by the tenant and the endpoint class: requests
\* of one tenant to different paths of one class are counted against one
\* shared window, so that inside any window a tenant is admitted at most
\* `quota` times for the class, whatever paths it uses.
C30_ClassSharedWindow ==
    Checked => ClassAdmittedInWindow <= last.quota

(***************************************************************************)
(* Properties of persistence and of the persisted records.                 *)
(***************************************************************************)
\* C31: an emit attempts the durable write if and only if its persist
\* argument is true, or is absent while the event type is one of the
\* critical types; a non-critical event emitted without the argument leaves
\* no record.
C31_PersistenceDecision ==
    \A i \in DOMAIN emits :
        emits[i].phase >= 1 =>
            /\ Has(ev_log[i], "persist") <=>
                   \/ emits[i].persist.present /\ emits[i].persist.val
                   \/ ~emits[i].persist.present
                          /\ emits[i].event_type.value \in _critical_events
            /\ (~emits[i].persist.present /\ emits[i].event_type.value \notin _critical_events)
                   => RowsOf(i) = {}

\* C32: no step deletes a persisted record, turns processed from true back
\* to false or decreases retry_count.
C32_RecordsMonotone ==
    [][ /\ Len(events_table') >= Len(events_table)
        /\ \A r \in DOMAIN events_table :
               /\ events_table[r].processed => events_table'[r].processed
               /\ events_table'[r].retry_count >= events_table[r].retry_count ]_vars

(***************************************************************************)
(* Properties of the history query.                                        *)
(***************************************************************************)
\* what every answer of the history query satisfies: the table is as it
\* was, nothing was raised, at most `limit` rows are returned, all of the
\* tenant, newest first, and none when the store failed
HistoryAnswer ==
    /\ events_table = api_ret.table
    /\ ~api_ret.raised
    /\ Len(api_ret.result) <= api_ret.limit
    /\ \A a \in DOMAIN api_ret.result :
           events_table[api_ret.result[a]].tenant_id = api_ret.tenant_id
    /\ \A a, b \in DOMAIN api_ret.result :
           a < b => events_table[api_ret.result[a]].timestamp
                        >= events_table[api_ret.result[b]].timestamp
    /\ api_ret.failed => api_ret.result = <<>>

\* C33 as stated: the history query is read-only and returns at most `limit`
\* records, all of the given tenant and, when an event type is supplied, all
\* of that event type, newest first; on a storage failure it returns an
\* empty sequence instead of raising.
C33_HistoryFiltered ==
    api_ret.op = "history" =>
        /\ HistoryAnswer
        /\ api_ret.event_type.present =>
               \A a \in DOMAIN api_ret.result :
                   events_table[api_ret.result[a]].event_type = api_ret.event_type.val

\* C33, amended: as stated, with the records restricted to the event type
\* only when a non-empty event type is supplied; an empty event type selects
\* the records of every type, as none does.
C33_HistoryFilteredWhenNonEmpty ==
    api_ret.op = "history" =>
        /\ HistoryAnswer
        /\ (api_ret.event_type.present /\ api_ret.event_type.val # "") =>
               \A a \in DOMAIN api_ret.result :
                   events_table[api_ret.result[a]].event_type = api_ret.event_type.val
        /\ ( /\ ~(api_ret.event_type.present /\ api_ret.event_type.val # "")
              /\ ~api_ret.failed
              /\ api_ret.limit >= Len(events_table) ) =>
                   {api_ret.result[a] : a \in DOMAIN api_ret.result}
                       = {r \in DOMAIN events_table :
                              events_table[r].tenant_id = api_ret.tenant_id}

\* a query with an empty event type that returned rows of two types
C33_Witness ==
    /\ api_ret.op = "history"
    /\ api_ret.event_type = [present |-> TRUE, val |-> ""]
    /\ api_ret.limit = 100
    /\ Len(api_ret.result) = 4
    /\ \E a, b \in DOMAIN api_ret.result :
           events_table[api_ret.result[a]].event_type
               # events_table[api_ret.result[b]].event_type

(***************************************************************************)
(* Properties of the webhook envelope.                                     *)
(***************************************************************************)
\* C34: the envelope of every delivery made for an event of type E carries
\* event_type = E, the payload as data and the id of the subscription,
\* whether or not the payload has an event_type field of its own.
C34_EnvelopeEventType ==
    \A d \in DOMAIN dispatches : \A k \in DOMAIN dispatches[d].deliveries :
        dispatches[d].deliveries[k].st = "done" =>
            /\ dispatches[d].deliveries[k].envelope.event_type
                   = [present |-> TRUE, val |-> dispatches[d].event_type]
            /\ dispatches[d].deliveries[k].envelope.data = dispatches[d].event_data
            /\ dispatches[d].deliveries[k].envelope.webhook_id
                   = dispatches[d].deliveries[k].webhook

C36_ErrorChainEnds ==
    \A t \in DOMAIN tasks, u \in DOMAIN tasks :
        ( /\ tasks[t].failed
          /\ tasks[u].emit = tasks[t].err_emit
          /\ tasks[u].listener = tasks[t].listener )
        => ~tasks[u].failed

(***************************************************************************)
(* Properties of emit followed by a sweep.                                 *)
(***************************************************************************)
\* the entries of sweep s for row r
HandledEntries(s, r) ==
    {k \in DOMAIN sweeps[s].handled : sweeps[s].handled[k].id = r}

\* C37: a record persisted by emit is processed only once a sweep marked it:
\* emit leaves it unprocessed whatever its listeners did; a sweep whose select
\* is answered selects every such record still unprocessed whose retry_count
\* is within its max_retries; and a record a sweep marked processed had its listeners
\* invoked again by that sweep, one new task per listener, all run to their
\* end before the mark.
C37_EmitLeavesUnprocessed ==
    /\ \A r \in DOMAIN events_table :
           (events_table[r].emit > 0 /\ events_table[r].processed)
           => \E s \in DOMAIN sweeps : \E k \in HandledEntries(s, r) :
                  sweeps[s].handled[k].how = "processed"
    /\ \A s \in DOMAIN sweeps : \A r \in DOMAIN sweeps[s].at_select :
           ( /\ sweeps[s].select_ok
             /\ sweeps[s].at_select[r].emit > 0
             /\ ~sweeps[s].at_select[r].processed
             /\ sweeps[s].at_select[r].retry_count <= sweeps[s].max_retries )
           => Has(sweeps[s].selected, r)
    /\ \A s \in DOMAIN sweeps : \A k \in DOMAIN sweeps[s].handled :
           LET h == sweeps[s].handled[k]
               i == events_table[h.id].emit
           IN  (i > 0 /\ h.how = "processed")
               => /\ Cardinality(h.tasks) =
                         Len(ListenersFor(Str(events_table[h.id].event_type)))
                  /\ h.tasks \cap TasksOf(i) = {}
                  /\ \A t \in h.tasks : tasks[t].st = "done"

\* an emit returned after its listener ran without failing, and a sweep then
\* ran the listener again for the persisted record and marked it processed
C37_Witness ==
    \E i \in DOMAIN emits : \E r \in RowsOf(i) : \E s \in DOMAIN sweeps :
        \E k \in HandledEntries(s, r) :
            /\ emits[i].pc = "returned"
            /\ TasksOf(i) # {}
            /\ \A t \in TasksOf(i) : tasks[t].st = "done" /\ ~tasks[t].failed
            /\ sweeps[s].handled[k].how = "processed"
            /\ sweeps[s].handled[k].tasks # {}
            /\ \A t \in sweeps[s].handled[k].tasks : tasks[t].st = "done"
            /\ events_table[r].processed

(***************************************************************************)
(* Tenant isolation of the response cache.                                 *)
(***************************************************************************)
\* C38: a get under a tenant and an agent returns only an entry that was
\* written under that tenant and that agent, and clear_tenant_cache(T)
\* removes only entries that were written under T.
C38_TenantIsolated ==
    /\ (cache_ret.op = "get" /\ cache_ret.hit)
       => /\ cache_ret.data.tenant_id = cache_ret.tenant_id
          /\ cache_ret.data.agent_id = cache_ret.agent_id
    /\ cache_ret.op = "clear" => cache_ret.own_removed = cache_ret.count

(***************************************************************************)
(* Ownership of the webhook subscriptions.                                 *)
(***************************************************************************)
\* C39: a subscription changes or disappears only in a step that is an
\* unregister request for its id made on behalf of the tenant that owns it;
\* no step of a dispatch and no request of another tenant changes it.
C39_SubscriptionsOwned ==
    [][ \A w \in DOMAIN subscriptions :
            subscriptions'[w] # subscriptions[w]
            => /\ dispatches' = dispatches
               /\ api_ret'.op = "unregister"
               /\ api_ret'.webhook_id = w
               /\ api_ret'.tenant_id = subscriptions[w].tenant_id ]_vars

(***************************************************************************)
(* Properties of overlapping sweeps.                                       *)
(***************************************************************************)
\* C40: what a sweep selects depends on the table alone: a sweep whose select
\* is answered selects exactly the rows that are then unprocessed with
\* retry_count within max_retries, also those an earlier sweep has selected
\* and is still dispatching; nothing excludes one sweep from the rows of
\* another.
C40_SweepsNotExclusive ==
    \A s \in DOMAIN sweeps :
        sweeps[s].select_ok
        => \A r \in DOMAIN sweeps[s].at_select :
               Has(sweeps[s].selected, r)
               <=> Eligible(sweeps[s].at_select[r], sweeps[s].max_retries)

\* two sweeps are both suspended in process_listeners for the same
\* unprocessed row, and the listener tasks of both have been invoked
C40_Witness ==
    \E s1 \in DOMAIN sweeps, s2 \in DOMAIN sweeps :
        /\ s1 < s2
        /\ sweeps[s1].st = "waiting"
        /\ sweeps[s2].st = "waiting"
        /\ sweeps[s1].selected[sweeps[s1].pos] = sweeps[s2].selected[sweeps[s2].pos]
        /\ ~events_table[sweeps[s1].selected[sweeps[s1].pos]].processed
        /\ sweeps[s1].awaiting # {}
        /\ sweeps[s2].awaiting # {}
        /\ sweeps[s1].awaiting \cap sweeps[s2].awaiting = {}
        /\ \A t \in sweeps[s1].awaiting \cup sweeps[s2].awaiting :
               tasks[t].st \in {"running", "done"}

====
